---- MODULE Spec2Model ----
(***************************************************************************)
(* Report ingestion pipeline of the Amazon seller dashboard backend:       *)
(* UploadsService.processUpload / deleteUpload, the save strategies, the   *)
(* parsers' deduplicate steps and the IngestionLoggerService session       *)
(* tracker, over a row store reached by upsert / update / insert / delete. *)
(*                                                                         *)
(* Strings are sequences of one-character strings, so that cleaning,       *)
(* splitting and key concatenation are computed, not assumed.              *)
(***************************************************************************)
EXTENDS Integers, Sequences, FiniteSets, TLC

\* ------------------------------------------------------------------ bounds

\* data lines of an uploaded file (after the header line(s))
MaxLines == 3
\* processUpload executions in one behaviour
MaxUploads == 2
\* deleteUpload executions in one behaviour
MaxDeletes == 1

\* store calls that the store rejects although it could serve them (an
\* outage, a timeout), in one behaviour
MaxFaults == 1

\* requests (processUpload, deleteUpload) served at the same time
MaxInFlight == 1
\* the calendar days the clock may show: day 0 up to this day
MaxDay == 1
\* rows handed to a deduplicate / aggregate step in SpecDedup
MaxRows == 3
\* header cells handed to buildColumnMap in SpecDedup
MaxHeaders == 3
\* store calls made through the session tracker in one behaviour of SpecTracker
MaxTrackerCalls == 4
\* calls of parse in one behaviour of SpecParser
MaxParseCalls == 3
\* physical lines (header, blank and data lines) of a text file in SpecFile
MaxFileLines == 4
\* sheets of a workbook, and rows of a sheet, in SpecFile
MaxSheets == 3
MaxSheetRows == 1
\* the upsert batch size of the chunked save strategies (500 in the source,
\* scaled down so that a file of MaxLines rows spans several batches)
chunkSize == 2

\* ----------------------------------------------------------------- strings

Empty == << >>

\* String.prototype.trim: whitespace is the blank and the tab
IsSpace(c) == c \in {" ", "\t"}

RECURSIVE TrimLeft(_)
TrimLeft(s) == IF s # Empty /\ IsSpace(Head(s)) THEN TrimLeft(Tail(s)) ELSE s

RECURSIVE TrimRight(_)
TrimRight(s) ==
  IF s # Empty /\ IsSpace(s[Len(s)]) THEN TrimRight(SubSeq(s, 1, Len(s) - 1)) ELSE s

Trim(s) == TrimRight(TrimLeft(s))

IsQuote(c) == c \in {"\"", "'"}

\* BaseParser.cleanString: value.replace(/^["']|["']$/g, '').trim()
\* (one leading and one trailing quote are removed, then whitespace)
cleanString(value) ==
  IF value = Empty THEN Empty
  ELSE LET a == IF IsQuote(Head(value)) THEN Tail(value) ELSE value
           b == IF a # Empty /\ IsQuote(a[Len(a)]) THEN SubSeq(a, 1, Len(a) - 1) ELSE a
       IN  Trim(b)

\* Array.prototype.join / template-literal concatenation with a separator
RECURSIVE Join(_, _)
Join(parts, sep) ==
  IF parts = << >> THEN Empty
  ELSE IF Len(parts) = 1 THEN parts[1]
  ELSE parts[1] \o sep \o Join(Tail(parts), sep)

\* String.prototype.split(sep) for a one-character separator
RECURSIVE SplitAcc(_, _, _)
SplitAcc(s, sep, cur) ==
  IF s = Empty THEN << cur >>
  ELSE IF Head(s) = sep THEN << cur >> \o SplitAcc(Tail(s), sep, Empty)
  ELSE SplitAcc(Tail(s), sep, Append(cur, Head(s)))

Split(s, sep) == SplitAcc(s, sep, Empty)

\* character order used by Array.prototype.sort on strings (code-unit order,
\* restricted to the characters the model's inputs use)
CharOrder ==
  << "\t", " ", "\"", "'", "-", "/", "0", "1", "2", "3", "4", "5", "6", "7", "8", "9",
     "a", "b", "c", "|" >>

CharRank(c) == CHOOSE i \in 1..Len(CharOrder) : CharOrder[i] = c

RECURSIVE StrLess(_, _)
StrLess(s, t) ==
  IF t = Empty THEN FALSE
  ELSE IF s = Empty THEN TRUE
  ELSE IF Head(s) = Head(t) THEN StrLess(Tail(s), Tail(t))
  ELSE CharRank(Head(s)) < CharRank(Head(t))

StrLeq(s, t) == s = t \/ StrLess(s, t)

\* String.prototype.padStart(2, '0')
padStart2(s) == IF Len(s) >= 2 THEN s ELSE IF Len(s) = 1 THEN << "0" >> \o s ELSE << "0", "0" >>

\* BaseParser.parseDate
parseDate(dateStr) ==
  IF dateStr = Empty THEN Empty
  ELSE LET cleaned == cleanString(dateStr)
           slashParts == Split(cleaned, "/")
       IN  IF Len(slashParts) = 3
           THEN LET year == IF Len(slashParts[3]) = 2
                            THEN << "2", "0" >> \o slashParts[3]
                            ELSE slashParts[3]
                IN  year \o << "-" >> \o padStart2(slashParts[1])
                         \o << "-" >> \o padStart2(slashParts[2])
           ELSE cleaned

\* new Date().toISOString().split('T')[0] on calendar day d
isoDate(d) == << ToString(d) >>

\* the || operator on strings: the left operand unless it is empty
OrElse(s, t) == IF s # Empty THEN s ELSE t

IsDigit(c) == c \in {"0", "1", "2", "3", "4", "5", "6", "7", "8", "9"}

AllDigits(s) == \A i \in 1..Len(s) : IsDigit(s[i])

\* the start positions at which /(\d{8})-(\d{8})/ matches in s
DatePairMatches(s) ==
  { i \in 1..(Len(s) - 16) :
      /\ AllDigits(SubSeq(s, i, i + 7))
      /\ s[i + 8] = "-"
      /\ AllDigits(SubSeq(s, i + 9, i + 16)) }

\* `${d.slice(0, 4)}-${d.slice(4, 6)}-${d.slice(6, 8)}` of an 8-digit text
DashedDate(d) ==
  SubSeq(d, 1, 4) \o << "-" >> \o SubSeq(d, 5, 6) \o << "-" >> \o SubSeq(d, 7, 8)

\* ------------------------------------------------------------------ numbers
\* A number with a fractional part is kept in fixed point, as its count of
\* hundredths: 0.25 is Fixed(0, 25), 25 is Fixed(25, 0). Rounding of binary
\* floating point is not modelled.

Fixed(units, hundredths) == units * 100 + hundredths

\* a number, or NaN
Num(value) == [nan |-> FALSE, num |-> value]

NaN == [nan |-> TRUE, num |-> 0]

DigitValue(c) == CHOOSE d \in 0..9 : ToString(d) = c

\* the longest prefix of s made of decimal digits
RECURSIVE DigitPrefix(_)
DigitPrefix(s) ==
  IF s # Empty /\ IsDigit(Head(s)) THEN << Head(s) >> \o DigitPrefix(Tail(s)) ELSE Empty

\* the value of a text of decimal digits
RECURSIVE NatOf(_)
NatOf(digits) ==
  IF digits = Empty THEN 0
  ELSE NatOf(SubSeq(digits, 1, Len(digits) - 1)) * 10 + DigitValue(digits[Len(digits)])

\* the hundredths a fractional part of at most two digits stands for
HundredthsOf(digits) ==
  IF digits = Empty THEN 0
  ELSE IF Len(digits) = 1 THEN DigitValue(digits[1]) * 10
  ELSE DigitValue(digits[1]) * 10 + DigitValue(digits[2])

\* the global parseFloat on a text without exponent: leading whitespace is
\* skipped, then the longest prefix [+-]digits[.digits] is read; NaN when that
\* prefix holds no digit
parseFloat(str) ==
  LET t == TrimLeft(str)
      signed == t # Empty /\ Head(t) \in {"-", "+"}
      u == IF signed THEN Tail(t) ELSE t
      whole == DigitPrefix(u)
      rest == SubSeq(u, Len(whole) + 1, Len(u))
      fraction == IF rest # Empty /\ Head(rest) = "." THEN DigitPrefix(Tail(rest))
                  ELSE Empty
      magnitude == Fixed(NatOf(whole), HundredthsOf(fraction))
  IN  IF whole = Empty /\ fraction = Empty THEN NaN
      ELSE Num(IF signed /\ Head(t) = "-" THEN 0 - magnitude ELSE magnitude)

\* String.prototype.replace(c, '') for a one-character pattern: the first
\* occurrence is removed
RECURSIVE RemoveFirst(_, _)
RemoveFirst(s, c) ==
  IF s = Empty THEN Empty
  ELSE IF Head(s) = c THEN Tail(s)
  ELSE << Head(s) >> \o RemoveFirst(Tail(s), c)

\* a ratio that divides by every denominator other than zero
Ratio_NonZero(num, den) == IF den # 0 THEN << num, den >> ELSE << 0, 1 >>

\* den > 0 ? num / den : 0 -- a quotient num / den of two metrics is kept as
\* the pair << num, den >> (floating-point rounding is not modelled); 0 is
\* << 0, 1 >>
Ratio(num, den) == IF den > 0 THEN << num, den >> ELSE << 0, 1 >>

\* ------------------------------------------------------------ report types

ValidReportTypes ==
  { "daily_sales", "product_performance", "parent_performance", "search_terms",
    "inventory", "advertising_report", "advertising_bulk", "sku_campaign_mapping",
    "parent_child", "restocking_limits", "idq_scores", "sku_rankings" }

\* REPORT_TYPE_INFO[reportType].tableName
TableNameOf(reportType) ==
  CASE reportType = "daily_sales" -> "daily_sales_traffic"
    [] reportType = "product_performance" -> "product_performance"
    [] reportType = "parent_performance" -> "parent_performance"
    [] reportType = "search_terms" -> "search_term_performance"
    [] reportType = "inventory" -> "inventory_snapshots"
    [] reportType = "advertising_report" -> "advertising_report_metrics"
    [] reportType = "advertising_bulk" -> "advertising_report_metrics"
    [] reportType = "sku_campaign_mapping" -> "sku_campaign_mapping"
    [] reportType = "parent_child" -> "parent_child_mapping"
    [] reportType = "restocking_limits" -> "restocking_limits"
    [] reportType = "idq_scores" -> "idq_scores"
    [] reportType = "sku_rankings" -> "sku_rankings"

TableNames == { TableNameOf(t) : t \in ValidReportTypes }

\* ------------------------------------------------------------------ parsing
\* A data line is modelled by the cells the parser of its report type reads
\* after the line splitter: c0, c1, c2 (text cells), n (the number every
\* metric cell holds) and entity (the Entity cell of a bulk sheet row). The
\* header is the one the parser expects, and no date column is present where
\* the parser treats it as optional unless stated below.

UpperCase ==
  << "A", "B", "C", "D", "E", "F", "G", "H", "I", "J", "K", "L", "M",
     "N", "O", "P", "Q", "R", "S", "T", "U", "V", "W", "X", "Y", "Z" >>

LowerCase ==
  << "a", "b", "c", "d", "e", "f", "g", "h", "i", "j", "k", "l", "m",
     "n", "o", "p", "q", "r", "s", "t", "u", "v", "w", "x", "y", "z" >>

\* String.prototype.toLowerCase
toLowerCase(s) ==
  [i \in 1..Len(s) |->
     IF \E k \in 1..Len(UpperCase) : UpperCase[k] = s[i]
     THEN LowerCase[CHOOSE k \in 1..Len(UpperCase) : UpperCase[k] = s[i]]
     ELSE s[i]]

\* String.prototype.includes
includes(s, v) == \E i \in 1..(Len(s) - Len(v) + 1) : SubSeq(s, i, i + Len(v) - 1) = v

\* String.prototype.toUpperCase
toUpperCase(s) ==
  [i \in 1..Len(s) |->
     IF \E k \in 1..Len(LowerCase) : LowerCase[k] = s[i]
     THEN UpperCase[CHOOSE k \in 1..Len(LowerCase) : LowerCase[k] = s[i]]
     ELSE s[i]]

\* RestockingLimitsParser.normalizeStorageType
normalizeStorageType(type) ==
  IF type = Empty THEN Empty
  ELSE LET lower == toLowerCase(type)
       IN
           IF includes(lower, << "s", "t", "a", "n", "d", "a", "r", "d" >>)
             THEN << "s", "t", "a", "n", "d", "a", "r", "d" >>
           ELSE IF includes(lower, << "o", "v", "e", "r", "s", "i", "z", "e" >>)
             THEN << "o", "v", "e", "r", "s", "i", "z", "e" >>
           ELSE IF includes(lower, << "a", "p", "p", "a", "r", "e", "l" >>)
             THEN << "a", "p", "p", "a", "r", "e", "l" >>
           ELSE IF includes(lower, << "f", "o", "o", "t", "w", "e", "a", "r" >>) \/ includes(lower, << "s", "h", "o", "e" >>)
             THEN << "f", "o", "o", "t", "w", "e", "a", "r" >>
           ELSE IF includes(lower, << "f", "l", "a", "m", "m", "a", "b", "l", "e" >>)
             THEN << "f", "l", "a", "m", "m", "a", "b", "l", "e" >>
           ELSE IF includes(lower, << "a", "e", "r", "o", "s", "o", "l" >>)
             THEN << "a", "e", "r", "o", "s", "o", "l" >>
           ELSE lower

\* IdqScoresParser.normalizeAction
normalizeAction(action) ==
  IF action = Empty THEN << "n", "o", "n", "e" >>
  ELSE LET lower == toLowerCase(action)
       IN
           IF includes(lower, << "l", "i", "q", "u", "i", "d", "a", "t" >>)
             THEN << "l", "i", "q", "u", "i", "d", "a", "t", "e" >>
           ELSE IF includes(lower, << "r", "e", "m", "o", "v" >>)
             THEN << "r", "e", "m", "o", "v", "a", "l" >>
           ELSE IF includes(lower, << "p", "r", "i", "c", "e" >>)
             THEN << "p", "r", "i", "c", "e", "_", "r", "e", "d", "u", "c", "t", "i", "o", "n" >>
           ELSE IF includes(lower, << "p", "r", "o", "m", "o", "t" >>)
             THEN << "p", "r", "o", "m", "o", "t", "i", "o", "n" >>
           ELSE << "n", "o", "n", "e" >>

\* SkuCampaignMappingParser.normalizeCampaignType
normalizeCampaignType(type) ==
  IF type = Empty THEN Empty
  ELSE LET upper == toUpperCase(type)
       IN
           IF includes(upper, << "B", "R", "A", "N", "D" >>) \/ upper = << "S", "B" >>
             THEN << "S", "B" >>
           ELSE IF includes(upper, << "D", "I", "S", "P", "L", "A", "Y" >>) \/ upper = << "S", "D" >>
             THEN << "S", "D" >>
           ELSE IF includes(upper, << "P", "R", "O", "D", "U", "C", "T" >>) \/ upper = << "S", "P" >>
             THEN << "S", "P" >>
           ELSE upper

\* SkuCampaignMappingParser.normalizeTargetingType
normalizeTargetingType(type) ==
  IF type = Empty THEN Empty
  ELSE LET lower == toLowerCase(type)
       IN
           IF includes(lower, << "a", "u", "t", "o" >>)
             THEN << "a", "u", "t", "o" >>
           ELSE IF includes(lower, << "m", "a", "n", "u", "a", "l" >>)
             THEN << "m", "a", "n", "u", "a", "l" >>
           ELSE IF includes(lower, << "k", "e", "y", "w", "o", "r", "d" >>)
             THEN << "k", "e", "y", "w", "o", "r", "d" >>
           ELSE IF includes(lower, << "p", "r", "o", "d", "u", "c", "t" >>)
             THEN << "p", "r", "o", "d", "u", "c", "t" >>
           ELSE lower

\* One data line of each delimited-text parser: the body of the parse loop,
\* i.e. the required-identifier test(s) and the parsed row.

\* DailySalesParser.parse, one iteration of the loop over dataLines
DailySalesLine(line, day) ==
  LET date == parseDate(line.c0)
  IN  IF date = Empty
      THEN [ok |-> FALSE, field |-> "date", message |-> "Invalid or missing date"]
      ELSE [ok |-> TRUE,
            row |-> [date |-> date, ordered_product_sales |-> line.n]]

\* ProductPerformanceParser.parse, one iteration of the loop over dataLines
ProductPerformanceLine(line, day) ==
  LET childAsin == cleanString(line.c0)
  IN  IF childAsin = Empty
      THEN [ok |-> FALSE, field |-> "child_asin", message |-> "Missing child ASIN"]
      ELSE [ok |-> TRUE,
            row |-> [parent_asin |-> OrElse(cleanString(line.c1), childAsin),
                     child_asin |-> childAsin,
                     ordered_product_sales |-> line.n]]

\* ParentPerformanceParser.parse, one iteration of the loop over dataLines
ParentPerformanceLine(line, day) ==
  LET parentAsin == cleanString(line.c0)
  IN  IF parentAsin = Empty
      THEN [ok |-> FALSE, field |-> "parent_asin", message |-> "Missing parent ASIN"]
      ELSE [ok |-> TRUE,
            row |-> [parent_asin |-> parentAsin, ordered_product_sales |-> line.n]]

\* SearchTermsParser.parse, one iteration of the loop over dataLines
SearchTermsLine(line, day) ==
  LET searchTerm == cleanString(line.c0)
  IN  IF searchTerm = Empty
      THEN [ok |-> FALSE, field |-> "search_term", message |-> "Missing search term"]
      ELSE [ok |-> TRUE,
            row |-> [search_term |-> searchTerm,
                     reporting_date |-> OrElse(cleanString(line.c1), isoDate(day)),
                     clicks_total |-> line.n]]

\* InventoryParser.parse, one iteration of the loop over dataLines
InventoryLine(line, day) ==
  \* parseTSVLine cleans every cell, the parser cleans it again
  LET asin == cleanString(cleanString(line.c0))
  IN  IF asin = Empty
      THEN [ok |-> FALSE, field |-> "asin", message |-> "Missing ASIN"]
      ELSE [ok |-> TRUE,
            row |-> [sku |-> cleanString(cleanString(line.c1)),
                     asin |-> asin,
                     warehouse_condition |-> cleanString(cleanString(line.c2)),
                     quantity_available |-> line.n]]

\* AdvertisingReportParser.parse: the derived metrics of a row
AdvertisingReportDerived(impressions, clicks, spend, sales, orders) ==
  [acos |-> Ratio(spend, sales),
   roas |-> Ratio(sales, spend),
   ctr |-> Ratio(clicks, impressions),
   cpc |-> Ratio(spend, clicks),
   conversion_rate |-> Ratio(orders, clicks)]

\* AdvertisingReportParser.parse, one iteration of the loop over dataLines
AdvertisingReportLine(line, day) ==
  LET campaignId == cleanString(line.c0)
  IN  IF campaignId = Empty
      THEN [ok |-> FALSE, field |-> "campaign_id", message |-> "Missing Campaign ID"]
      ELSE [ok |-> TRUE,
            row |-> [report_date |-> isoDate(day),
                     campaign_id |-> campaignId,
                     ad_group_id |-> cleanString(line.c1),
                     keyword_id |-> cleanString(line.c2),
                     impressions |-> line.n, clicks |-> line.n, spend |-> line.n,
                     sales |-> line.n, orders |-> line.n]
                      @@ AdvertisingReportDerived(line.n, line.n, line.n, line.n, line.n)]

\* SkuCampaignMappingParser.parse, one iteration of the loop over dataLines
SkuCampaignMappingLine(line, day) ==
  LET sku == cleanString(line.c0)
      campaignId == cleanString(line.c1)
  IN  IF sku = Empty
      THEN [ok |-> FALSE, field |-> "sku", message |-> "Missing SKU"]
      ELSE IF campaignId = Empty
      THEN [ok |-> FALSE, field |-> "campaign_id", message |-> "Missing Campaign ID"]
      ELSE [ok |-> TRUE,
            row |-> [sku |-> sku, asin |-> cleanString(line.c2),
                     campaign_id |-> campaignId]]

\* ParentChildParser.parse, one iteration of the loop over dataLines
ParentChildLine(line, day) ==
  LET parentAsin == cleanString(line.c0)
      childAsin == cleanString(line.c1)
  IN  IF parentAsin = Empty
      THEN [ok |-> FALSE, field |-> "parent_asin", message |-> "Missing Parent ASIN"]
      ELSE IF childAsin = Empty
      THEN [ok |-> FALSE, field |-> "child_asin", message |-> "Missing Child ASIN"]
      ELSE [ok |-> TRUE,
            row |-> [parent_asin |-> parentAsin, child_asin |-> childAsin]]

\* RestockingLimitsParser.parse, one iteration of the loop over dataLines
RestockingLimitsLine(line, day) ==
  LET storageType == normalizeStorageType(cleanString(line.c0))
  IN  IF storageType = Empty
      THEN [ok |-> FALSE, field |-> "storage_type", message |-> "Missing Storage Type"]
      ELSE [ok |-> TRUE,
            row |-> [storage_type |-> storageType,
                     max_inventory_units |-> line.n,
                     snapshot_date |->
                       OrElse(parseDate(cleanString(line.c1)), isoDate(day))]]

\* IdqScoresParser.parse, one iteration of the loop over dataLines
IdqScoresLine(line, day) ==
  LET sku == cleanString(line.c0)
  IN  IF sku = Empty
      THEN [ok |-> FALSE, field |-> "sku", message |-> "Missing SKU"]
      ELSE [ok |-> TRUE,
            row |-> [sku |-> sku, idq_score |-> line.n,
                     snapshot_date |->
                       OrElse(parseDate(cleanString(line.c1)), isoDate(day))]]

\* SkuRankingsParser.parse, one iteration of the loop over dataLines
SkuRankingsLine(line, day) ==
  LET asin == cleanString(line.c0)
  IN  IF asin = Empty
      THEN [ok |-> FALSE, field |-> "asin", message |-> "Missing ASIN"]
      ELSE [ok |-> TRUE,
            row |-> [asin |-> asin, category_rank |-> line.n,
                     snapshot_date |->
                       OrElse(parseDate(cleanString(line.c1)), isoDate(day))]]

\* the parse loop body of the parser registered for reportType
LineOutcome(reportType, line, day) ==
  CASE reportType = "daily_sales" -> DailySalesLine(line, day)
    [] reportType = "product_performance" -> ProductPerformanceLine(line, day)
    [] reportType = "parent_performance" -> ParentPerformanceLine(line, day)
    [] reportType = "search_terms" -> SearchTermsLine(line, day)
    [] reportType = "inventory" -> InventoryLine(line, day)
    [] reportType = "advertising_report" -> AdvertisingReportLine(line, day)
    [] reportType = "sku_campaign_mapping" -> SkuCampaignMappingLine(line, day)
    [] reportType = "parent_child" -> ParentChildLine(line, day)
    [] reportType = "restocking_limits" -> RestockingLimitsLine(line, day)
    [] reportType = "idq_scores" -> IdqScoresLine(line, day)
    [] reportType = "sku_rankings" -> SkuRankingsLine(line, day)

\* header / metadata lines skipped before the data lines
HeaderLines(reportType) == IF reportType = "search_terms" THEN 2 ELSE 1

RECURSIVE ParsedRows(_)
ParsedRows(outcomes) ==
  IF outcomes = << >> THEN << >>
  ELSE IF Head(outcomes).ok THEN << Head(outcomes).row >> \o ParsedRows(Tail(outcomes))
  ELSE ParsedRows(Tail(outcomes))

RECURSIVE ParseErrors(_, _)
ParseErrors(outcomes, rowNum) ==
  IF outcomes = << >> THEN << >>
  ELSE IF Head(outcomes).ok THEN ParseErrors(Tail(outcomes), rowNum + 1)
  ELSE << [row |-> rowNum, field |-> Head(outcomes).field,
           message |-> Head(outcomes).message] >>
       \o ParseErrors(Tail(outcomes), rowNum + 1)

NoDateRange == [start |-> Empty, end |-> Empty]

RECURSIVE MinStr(_)
MinStr(dates) ==
  IF Len(dates) = 1 THEN dates[1]
  ELSE LET m == MinStr(Tail(dates)) IN IF StrLeq(dates[1], m) THEN dates[1] ELSE m

RECURSIVE MaxStr(_)
MaxStr(dates) ==
  IF Len(dates) = 1 THEN dates[1]
  ELSE LET m == MaxStr(Tail(dates)) IN IF StrLeq(m, dates[1]) THEN dates[1] ELSE m

\* BaseParser.extractDateRange
extractDateRange(dates) ==
  LET validDates == SelectSeq(dates, LAMBDA d : d # Empty)
  IN  IF validDates = << >> THEN NoDateRange
      ELSE [start |-> MinStr(validDates), end |-> MaxStr(validDates)]

\* BaseParser.createResult
createResult_SkippedIsTotal(data, errors, totalRows, dateRange) ==
  [data |-> data,
   errors |-> errors,
   metadata |-> [totalRows |-> totalRows,
                 parsedRows |-> Len(data),
                 skippedRows |-> totalRows,
                 dateRange |-> dateRange]]

createResult(data, errors, totalRows, dateRange) ==
  [data |-> data,
   errors |-> errors,
   metadata |-> [totalRows |-> totalRows,
                 parsedRows |-> Len(data),
                 skippedRows |-> totalRows - Len(data),
                 dateRange |-> dateRange]]

\* the dates a parser collects for extractDateRange (none for the parsers
\* that pass no date range to createResult)
RowDate(reportType, row) ==
  CASE reportType = "daily_sales" -> row.date
    [] reportType = "search_terms" -> row.reporting_date
    [] reportType = "advertising_report" -> row.report_date
    [] reportType \in {"restocking_limits", "idq_scores", "sku_rankings"} -> row.snapshot_date
    [] OTHER -> Empty

\* <Type>Parser.parse for the eleven delimited-text parsers
parseDelimited(reportType, lines, day) ==
  LET outcomes == [i \in 1..Len(lines) |-> LineOutcome(reportType, lines[i], day)]
      data == ParsedRows(outcomes)
      errors == ParseErrors(outcomes, HeaderLines(reportType) + 1)
      dates == [i \in 1..Len(data) |-> RowDate(reportType, data[i])]
  IN  createResult(data, errors, Len(lines), extractDateRange(dates))

\* AdvertisingBulkParser.processCampaignSheet on one sheet row; rows without
\* a Campaign ID are skipped without an error
BulkRowOf(line, reportDate) ==
  LET isTarget == line.entity \in {"keyword", "product targeting"}
      isAdGroup == line.entity \in {"ad group", "ad"}
  IN  [report_date |-> reportDate,
       campaign_id |-> line.c0,
       ad_group_id |-> IF isTarget \/ isAdGroup THEN line.c1 ELSE Empty,
       keyword_id |-> IF isTarget THEN line.c2 ELSE Empty,
       sku |-> IF isTarget THEN Empty ELSE line.c2,
       impressions |-> line.n, clicks |-> line.n, spend |-> line.n,
       sales |-> line.n, orders |-> line.n, units |-> line.n,
       ctr |-> << 1, 1 >>]

\* a cell of a worksheet as sheet_to_json hands it over: a number, a text, or
\* nothing (undefined)
NumberCell(value) == [kind |-> "number", num |-> value, str |-> Empty]

TextCell(str) == [kind |-> "string", num |-> 0, str |-> str]

NoCell == [kind |-> "undefined", num |-> 0, str |-> Empty]

\* a parsePercentageValue that also scales a number equal to 1
PercentageScaled_UpToOne(value) == IF value <= Fixed(1, 0) THEN value * 100 ELSE value

\* AdvertisingBulkParser.parsePercentageValue, number branch:
\* value < 1 ? value * 100 : value
PercentageScaled(value) == IF value < Fixed(1, 0) THEN value * 100 ELSE value

\* AdvertisingBulkParser.parsePercentageValue
parsePercentageValue(value) ==
  IF value.kind = "undefined" \/ (value.kind = "string" /\ value.str = Empty) THEN 0
  ELSE IF value.kind = "number" THEN PercentageScaled(value.num)
  ELSE LET num == parseFloat(RemoveFirst(value.str, "%"))
       IN  IF num.nan THEN 0 ELSE num.num

\* an optional file name that was not given (undefined)
NoFileName == Empty

\* AdvertisingBulkParser.extractDateFromFilename on an instance whose
\* dateRange field holds dateRange: the report date it returns and the value
\* of the field afterwards (NoDateRange is the field's null)
extractDateFromFilename(dateRange, filename, day) ==
  IF filename # NoFileName /\ DatePairMatches(filename) # {}
  THEN LET i == CHOOSE m \in DatePairMatches(filename) :
                  \A n \in DatePairMatches(filename) : m <= n
           start == DashedDate(SubSeq(filename, i, i + 7))
           end == DashedDate(SubSeq(filename, i + 9, i + 16))
       IN  [reportDate |-> end, dateRange |-> [start |-> start, end |-> end]]
  ELSE [reportDate |-> isoDate(day), dateRange |-> dateRange]

\* AdvertisingBulkParser.parse on an instance whose dateRange field holds
\* dateRange: the result and the value of the field afterwards
parseBulkOn(dateRange, lines, filename, day) ==
  LET extracted == extractDateFromFilename(dateRange, filename, day)
      kept == SelectSeq(lines, LAMBDA l : l.c0 # Empty)
      data == [i \in 1..Len(kept) |-> BulkRowOf(kept[i], extracted.reportDate)]
  IN  [result |-> createResult(data, << >>, Len(data), extracted.dateRange),
       dateRange |-> extracted.dateRange]

\* AdvertisingBulkParser.parse as processUpload calls it: without a file
\* name, so the report date is the current day and the dateRange field of the
\* instance stays null
parseBulk(lines, day) == parseBulkOn(NoDateRange, lines, NoFileName, day).result

\* A workbook as XLSX.read meets it: unreadable (XLSX.read throws an exception
\* with a message), or its sheets in order; processing a sheet yields the
\* sheet's rows or throws an exception with a message.
Sheet(lines) == [throws |-> FALSE, message |-> "", lines |-> lines]

BrokenSheet(message) == [throws |-> TRUE, message |-> message, lines |-> << >>]

Workbook(sheets) == [readable |-> TRUE, message |-> "", sheets |-> sheets]

Unreadable(message) == [readable |-> FALSE, message |-> message, sheets |-> << >>]

\* AdvertisingBulkParser.processCampaignSheet: the rows of one sheet
processCampaignSheet(lines, reportDate) ==
  LET kept == SelectSeq(lines, LAMBDA l : l.c0 # Empty)
  IN  [i \in 1..Len(kept) |-> BulkRowOf(kept[i], reportDate)]

\* a parse that keeps the rows of its sheets only when no exception is caught
SheetsRead_AllOrNothing(workbook) ==
  IF workbook.readable /\ \A i \in 1..Len(workbook.sheets) : ~workbook.sheets[i].throws
  THEN Len(workbook.sheets) ELSE 0

\* AdvertisingBulkParser.parse, the try block: the number of sheets whose rows
\* were pushed to data when the block ends, normally or by an exception
SheetsRead(workbook) ==
  IF ~workbook.readable THEN 0
  ELSE LET broken == { i \in 1..Len(workbook.sheets) : workbook.sheets[i].throws }
       IN  IF broken = {} THEN Len(workbook.sheets)
           ELSE (CHOOSE i \in broken : \A j \in broken : i <= j) - 1

\* AdvertisingBulkParser.parse, the catch block: the message of the exception
\* caught, if one was thrown
Caught(workbook) ==
  IF ~workbook.readable THEN << workbook.message >>
  ELSE IF SheetsRead(workbook) < Len(workbook.sheets)
  THEN << workbook.sheets[SheetsRead(workbook) + 1].message >>
  ELSE << >>

\* data.push(...sheetData) for the first n sheets
RECURSIVE SheetData(_, _, _)
SheetData(sheets, n, reportDate) ==
  IF n = 0 THEN << >>
  ELSE SheetData(sheets, n - 1, reportDate)
       \o processCampaignSheet(sheets[n].lines, reportDate)

\* AdvertisingBulkParser.parse on a workbook, on an instance whose dateRange
\* field holds dateRange: the result and the value of the field afterwards
parseWorkbookOn(dateRange, workbook, filename, day) ==
  LET extracted == extractDateFromFilename(dateRange, filename, day)
      data == SheetData(workbook.sheets, SheetsRead(workbook), extracted.reportDate)
      errors == [i \in 1..Len(Caught(workbook)) |->
                   [row |-> 0, field |-> "",
                    message |-> "Failed to parse Excel file: " \o Caught(workbook)[i]]]
  IN  [result |-> createResult(data, errors, Len(data), extracted.dateRange),
       dateRange |-> extracted.dateRange]

\* ParserFactory.getParser: the parser of the report type (named by its
\* type), or the error of the switch's default branch
getParser(reportType) ==
  IF reportType \in ValidReportTypes THEN [parser |-> reportType, error |-> ""]
  ELSE [parser |-> "", error |-> "Unknown report type: " \o reportType]

\* parser.parse(content) for the parser getParser(reportType) returns
parse(reportType, lines, day) ==
  IF reportType = "advertising_bulk" THEN parseBulk(lines, day)
  ELSE parseDelimited(reportType, lines, day)

\* A text file as it is uploaded: its physical lines in order. A line is
\* blank when nothing is left of it after trim; otherwise it holds the cells
\* the parser reads.

\* content.split('\n').filter((line) => line.trim())
NonBlankLines(content) == SelectSeq(content, LAMBDA l : ~l.blank)

\* lines.slice(1), or lines.slice(2) for the search-term report
DataLinesOf(reportType, content) ==
  LET lines == NonBlankLines(content)
  IN  [i \in 1..(IF Len(lines) > HeaderLines(reportType)
                 THEN Len(lines) - HeaderLines(reportType) ELSE 0) |->
         lines[i + HeaderLines(reportType)].cells]

\* <Type>Parser.parse(content) for the eleven delimited-text parsers
parseContent(reportType, content, day) ==
  parseDelimited(reportType, DataLinesOf(reportType, content), day)

\* ------------------------------------------- deduplication and aggregation
\* A JavaScript Map is a sequence of entries [key, value] in insertion order;
\* set on a present key replaces the value in place.

MapHas(m, key) == \E i \in 1..Len(m) : m[i].key = key

MapGet(m, key) == m[CHOOSE i \in 1..Len(m) : m[i].key = key].value

MapSet(m, key, value) ==
  IF MapHas(m, key)
  THEN [i \in 1..Len(m) |-> IF m[i].key = key THEN [key |-> key, value |-> value] ELSE m[i]]
  ELSE Append(m, [key |-> key, value |-> value])

\* Array.from(map.values())
MapValues(m) == [i \in 1..Len(m) |-> m[i].value]

Bar == << "|" >>

\* --------------------------------------------------------- column resolver

\* the mappings of SkuCampaignMappingParser.buildColumnMap, in the order of
\* Object.entries
SkuCampaignMappings ==
  << [key |-> "sku",
      variants |->
        << << "s", "k", "u" >>,
           << "s", "e", "l", "l", "e", "r", " ", "s", "k", "u" >>,
           << "m", "e", "r", "c", "h", "a", "n", "t", " ", "s", "k", "u" >> >>],
     [key |-> "asin",
      variants |->
        << << "a", "s", "i", "n" >>,
           << "c", "h", "i", "l", "d", " ", "a", "s", "i", "n" >>,
           << "p", "r", "o", "d", "u", "c", "t", " ", "a", "s", "i", "n" >> >>],
     [key |-> "campaign_id",
      variants |->
        << << "c", "a", "m", "p", "a", "i", "g", "n", " ", "i", "d" >>,
           << "c", "a", "m", "p", "a", "i", "g", "n", "i", "d" >> >>],
     [key |-> "campaign_name",
      variants |->
        << << "c", "a", "m", "p", "a", "i", "g", "n", " ", "n", "a", "m", "e" >>,
           << "c", "a", "m", "p", "a", "i", "g", "n", "n", "a", "m", "e" >>,
           << "c", "a", "m", "p", "a", "i", "g", "n" >> >>],
     [key |-> "ad_group_id",
      variants |->
        << << "a", "d", " ", "g", "r", "o", "u", "p", " ", "i", "d" >>,
           << "a", "d", "g", "r", "o", "u", "p", "i", "d" >> >>],
     [key |-> "ad_group_name",
      variants |->
        << << "a", "d", " ", "g", "r", "o", "u", "p", " ", "n", "a", "m", "e" >>,
           << "a", "d", "g", "r", "o", "u", "p", "n", "a", "m", "e" >>,
           << "a", "d", " ", "g", "r", "o", "u", "p" >> >>],
     [key |-> "campaign_type",
      variants |->
        << << "c", "a", "m", "p", "a", "i", "g", "n", " ", "t", "y", "p", "e" >>,
           << "t", "y", "p", "e" >>,
           << "a", "d", " ", "t", "y", "p", "e" >> >>],
     [key |-> "targeting_type",
      variants |->
        << << "t", "a", "r", "g", "e", "t", "i", "n", "g", " ", "t", "y", "p", "e" >>,
           << "t", "a", "r", "g", "e", "t", "i", "n", "g" >>,
           << "s", "t", "r", "a", "t", "e", "g", "y" >> >>] >>

\* the mappings of AdvertisingReportParser.buildColumnMap
AdvertisingReportMappings ==
  << [key |-> "date",
      variants |->
        << << "d", "a", "t", "e" >>,
           << "r", "e", "p", "o", "r", "t", " ", "d", "a", "t", "e" >>,
           << "d", "a", "y" >> >>],
     [key |-> "campaign_id",
      variants |->
        << << "c", "a", "m", "p", "a", "i", "g", "n", " ", "i", "d" >>,
           << "c", "a", "m", "p", "a", "i", "g", "n", "i", "d" >> >>],
     [key |-> "campaign_name",
      variants |->
        << << "c", "a", "m", "p", "a", "i", "g", "n", " ", "n", "a", "m", "e" >>,
           << "c", "a", "m", "p", "a", "i", "g", "n", "n", "a", "m", "e" >>,
           << "c", "a", "m", "p", "a", "i", "g", "n" >> >>],
     [key |-> "campaign_type",
      variants |->
        << << "c", "a", "m", "p", "a", "i", "g", "n", " ", "t", "y", "p", "e" >>,
           << "t", "y", "p", "e" >> >>],
     [key |-> "campaign_status",
      variants |->
        << << "c", "a", "m", "p", "a", "i", "g", "n", " ", "s", "t", "a", "t", "u", "s" >>,
           << "s", "t", "a", "t", "u", "s" >>,
           << "s", "t", "a", "t", "e" >> >>],
     [key |-> "ad_group_id",
      variants |->
        << << "a", "d", " ", "g", "r", "o", "u", "p", " ", "i", "d" >>,
           << "a", "d", "g", "r", "o", "u", "p", "i", "d" >> >>],
     [key |-> "ad_group_name",
      variants |->
        << << "a", "d", " ", "g", "r", "o", "u", "p", " ", "n", "a", "m", "e" >>,
           << "a", "d", "g", "r", "o", "u", "p", "n", "a", "m", "e" >>,
           << "a", "d", " ", "g", "r", "o", "u", "p" >> >>],
     [key |-> "keyword_id",
      variants |->
        << << "k", "e", "y", "w", "o", "r", "d", " ", "i", "d" >>,
           << "k", "e", "y", "w", "o", "r", "d", "i", "d" >> >>],
     [key |-> "keyword_text",
      variants |->
        << << "k", "e", "y", "w", "o", "r", "d" >>,
           << "k", "e", "y", "w", "o", "r", "d", " ", "t", "e", "x", "t" >>,
           << "s", "e", "a", "r", "c", "h", " ", "t", "e", "r", "m" >>,
           << "t", "a", "r", "g", "e", "t", "i", "n", "g" >> >>],
     [key |-> "match_type",
      variants |->
        << << "m", "a", "t", "c", "h", " ", "t", "y", "p", "e" >>,
           << "m", "a", "t", "c", "h", "t", "y", "p", "e" >> >>],
     [key |-> "targeting_type",
      variants |->
        << << "t", "a", "r", "g", "e", "t", "i", "n", "g", " ", "t", "y", "p", "e" >>,
           << "t", "a", "r", "g", "e", "t", "i", "n", "g" >> >>],
     [key |-> "impressions",
      variants |->
        << << "i", "m", "p", "r", "e", "s", "s", "i", "o", "n", "s" >>,
           << "i", "m", "p", "r" >> >>],
     [key |-> "clicks",
      variants |->
        << << "c", "l", "i", "c", "k", "s" >> >>],
     [key |-> "spend",
      variants |->
        << << "s", "p", "e", "n", "d" >>,
           << "c", "o", "s", "t" >> >>],
     [key |-> "sales",
      variants |->
        << << "s", "a", "l", "e", "s" >>,
           << "7", " ", "d", "a", "y", " ", "t", "o", "t", "a", "l", " ", "s", "a", "l", "e", "s" >>,
           << "1", "4", " ", "d", "a", "y", " ", "t", "o", "t", "a", "l", " ", "s", "a", "l", "e", "s" >>,
           << "t", "o", "t", "a", "l", " ", "s", "a", "l", "e", "s" >> >>],
     [key |-> "orders",
      variants |->
        << << "o", "r", "d", "e", "r", "s" >>,
           << "7", " ", "d", "a", "y", " ", "t", "o", "t", "a", "l", " ", "o", "r", "d", "e", "r", "s" >>,
           << "1", "4", " ", "d", "a", "y", " ", "t", "o", "t", "a", "l", " ", "o", "r", "d", "e", "r", "s" >>,
           << "t", "o", "t", "a", "l", " ", "o", "r", "d", "e", "r", "s" >> >>],
     [key |-> "units",
      variants |->
        << << "u", "n", "i", "t", "s" >>,
           << "7", " ", "d", "a", "y", " ", "t", "o", "t", "a", "l", " ", "u", "n", "i", "t", "s" >>,
           << "1", "4", " ", "d", "a", "y", " ", "t", "o", "t", "a", "l", " ", "u", "n", "i", "t", "s" >>,
           << "t", "o", "t", "a", "l", " ", "u", "n", "i", "t", "s" >> >>] >>

\* the mappings of ParentChildParser.buildColumnMap
ParentChildMappings ==
  << [key |-> "parent_asin",
      variants |->
        << << "p", "a", "r", "e", "n", "t", " ", "a", "s", "i", "n" >>,
           << "p", "a", "r", "e", "n", "t", "a", "s", "i", "n" >>,
           << "p", "a", "r", "e", "n", "t" >> >>],
     [key |-> "child_asin",
      variants |->
        << << "c", "h", "i", "l", "d", " ", "a", "s", "i", "n" >>,
           << "c", "h", "i", "l", "d", "a", "s", "i", "n" >>,
           << "c", "h", "i", "l", "d" >>,
           << "a", "s", "i", "n" >> >>],
     [key |-> "relationship_type",
      variants |->
        << << "r", "e", "l", "a", "t", "i", "o", "n", "s", "h", "i", "p", " ", "t", "y", "p", "e" >>,
           << "r", "e", "l", "a", "t", "i", "o", "n", "s", "h", "i", "p" >>,
           << "t", "y", "p", "e" >> >>],
     [key |-> "marketplace_id",
      variants |->
        << << "m", "a", "r", "k", "e", "t", "p", "l", "a", "c", "e", " ", "i", "d" >>,
           << "m", "a", "r", "k", "e", "t", "p", "l", "a", "c", "e" >>,
           << "m", "a", "r", "k", "e", "t" >> >>] >>

\* the mappings of SkuRankingsParser.buildColumnMap
SkuRankingsMappings ==
  << [key |-> "asin",
      variants |->
        << << "a", "s", "i", "n" >> >>],
     [key |-> "sku",
      variants |->
        << << "s", "k", "u" >>,
           << "s", "e", "l", "l", "e", "r", " ", "s", "k", "u" >> >>],
     [key |-> "category_rank",
      variants |->
        << << "c", "a", "t", "e", "g", "o", "r", "y", " ", "r", "a", "n", "k" >>,
           << "b", "s", "r" >>,
           << "s", "a", "l", "e", "s", " ", "r", "a", "n", "k" >>,
           << "r", "a", "n", "k" >> >>],
     [key |-> "category_name",
      variants |->
        << << "c", "a", "t", "e", "g", "o", "r", "y" >>,
           << "c", "a", "t", "e", "g", "o", "r", "y", " ", "n", "a", "m", "e" >>,
           << "r", "o", "o", "t", " ", "c", "a", "t", "e", "g", "o", "r", "y" >> >>],
     [key |-> "subcategory_rank",
      variants |->
        << << "s", "u", "b", "c", "a", "t", "e", "g", "o", "r", "y", " ", "r", "a", "n", "k" >>,
           << "s", "u", "b", " ", "r", "a", "n", "k" >>,
           << "s", "u", "b", "c", "a", "t", " ", "r", "a", "n", "k" >> >>],
     [key |-> "subcategory_name",
      variants |->
        << << "s", "u", "b", "c", "a", "t", "e", "g", "o", "r", "y" >>,
           << "s", "u", "b", "c", "a", "t", "e", "g", "o", "r", "y", " ", "n", "a", "m", "e" >>,
           << "s", "u", "b", " ", "c", "a", "t", "e", "g", "o", "r", "y" >> >>],
     [key |-> "price",
      variants |->
        << << "p", "r", "i", "c", "e" >>,
           << "c", "u", "r", "r", "e", "n", "t", " ", "p", "r", "i", "c", "e" >>,
           << "l", "i", "s", "t", " ", "p", "r", "i", "c", "e" >> >>],
     [key |-> "fba_price",
      variants |->
        << << "f", "b", "a", " ", "p", "r", "i", "c", "e" >>,
           << "l", "o", "w", "e", "s", "t", " ", "f", "b", "a" >>,
           << "f", "b", "a", " ", "l", "o", "w", "e", "s", "t" >> >>],
     [key |-> "buybox_price",
      variants |->
        << << "b", "u", "y", " ", "b", "o", "x", " ", "p", "r", "i", "c", "e" >>,
           << "b", "u", "y", "b", "o", "x", " ", "p", "r", "i", "c", "e" >>,
           << "b", "b", " ", "p", "r", "i", "c", "e" >> >>],
     [key |-> "buybox_seller",
      variants |->
        << << "b", "u", "y", " ", "b", "o", "x", " ", "s", "e", "l", "l", "e", "r" >>,
           << "b", "u", "y", "b", "o", "x", " ", "s", "e", "l", "l", "e", "r" >>,
           << "b", "b", " ", "s", "e", "l", "l", "e", "r" >>,
           << "b", "u", "y", "b", "o", "x", " ", "w", "i", "n", "n", "e", "r" >> >>],
     [key |-> "reviews",
      variants |->
        << << "r", "e", "v", "i", "e", "w", "s" >>,
           << "r", "e", "v", "i", "e", "w", " ", "c", "o", "u", "n", "t" >>,
           << "n", "u", "m", "b", "e", "r", " ", "o", "f", " ", "r", "e", "v", "i", "e", "w", "s" >>,
           << "r", "a", "t", "i", "n", "g", "s", " ", "c", "o", "u", "n", "t" >> >>],
     [key |-> "rating",
      variants |->
        << << "r", "a", "t", "i", "n", "g" >>,
           << "a", "v", "g", " ", "r", "a", "t", "i", "n", "g" >>,
           << "a", "v", "e", "r", "a", "g", "e", " ", "r", "a", "t", "i", "n", "g" >>,
           << "s", "t", "a", "r", " ", "r", "a", "t", "i", "n", "g" >> >>],
     [key |-> "drops_30d",
      variants |->
        << << "d", "r", "o", "p", "s", " ", "3", "0" >>,
           << "3", "0", " ", "d", "a", "y", " ", "d", "r", "o", "p", "s" >>,
           << "3", "0", "d", " ", "d", "r", "o", "p", "s" >>,
           << "s", "a", "l", "e", "s", " ", "d", "r", "o", "p", "s", " ", "3", "0" >> >>],
     [key |-> "drops_90d",
      variants |->
        << << "d", "r", "o", "p", "s", " ", "9", "0" >>,
           << "9", "0", " ", "d", "a", "y", " ", "d", "r", "o", "p", "s" >>,
           << "9", "0", "d", " ", "d", "r", "o", "p", "s" >>,
           << "s", "a", "l", "e", "s", " ", "d", "r", "o", "p", "s", " ", "9", "0" >> >>],
     [key |-> "monthly_sales",
      variants |->
        << << "m", "o", "n", "t", "h", "l", "y", " ", "s", "a", "l", "e", "s" >>,
           << "e", "s", "t", " ", "m", "o", "n", "t", "h", "l", "y" >>,
           << "e", "s", "t", "i", "m", "a", "t", "e", "d", " ", "s", "a", "l", "e", "s" >>,
           << "s", "a", "l", "e", "s", " ", "e", "s", "t", "i", "m", "a", "t", "e" >>,
           << "e", "s", "t", " ", "s", "a", "l", "e", "s" >> >>],
     [key |-> "date",
      variants |->
        << << "d", "a", "t", "e" >>,
           << "s", "n", "a", "p", "s", "h", "o", "t", " ", "d", "a", "t", "e" >>,
           << "l", "a", "s", "t", " ", "u", "p", "d", "a", "t", "e" >>,
           << "d", "a", "t", "a", " ", "d", "a", "t", "e" >> >>] >>

\* variants.some((v) => header.includes(v))
MatchesVariant(header, variants) ==
  \E k \in 1..Len(variants) : includes(header, variants[k])

\* a buildColumnMap that binds a key to every matching column in turn
ColumnBinds_Rebinds(columnMap, key) == TRUE

\* buildColumnMap: the test that guards columnMap.set(key, i)
ColumnBinds(columnMap, key) == ~MapHas(columnMap, key)

\* buildColumnMap: the loop over the mappings for the header cell of index i
\* (the map after each iteration is bound as a value, then the loop goes on)
RECURSIVE ColumnMapKeys(_, _, _, _)
ColumnMapKeys(columnMap, header, i, mappings) ==
  IF mappings = << >> THEN columnMap
  ELSE CHOOSE result \in
         { ColumnMapKeys(next, header, i, Tail(mappings)) :
             next \in { IF MatchesVariant(header, Head(mappings).variants)
                             /\ ColumnBinds(columnMap, Head(mappings).key)
                        THEN MapSet(columnMap, Head(mappings).key, i)
                        ELSE columnMap } } : TRUE

\* buildColumnMap: the loop over the header cells, from index i (0-based)
RECURSIVE ColumnMapHeaders(_, _, _, _)
ColumnMapHeaders(columnMap, headers, i, mappings) ==
  IF i >= Len(headers) THEN columnMap
  ELSE CHOOSE result \in
         { ColumnMapHeaders(next, headers, i + 1, mappings) :
             next \in { ColumnMapKeys(columnMap, Trim(toLowerCase(headers[i + 1])),
                                      i, mappings) } } : TRUE

\* buildColumnMap: this.columnMap after the call (cleared first)
buildColumnMap(headers, mappings) == ColumnMapHeaders(<< >>, headers, 0, mappings)

\* a deduplicate that lets a later row of equal sales replace the stored one
ProductKeeps_AlsoOnTie(deduped, row) ==
  \/ ~MapHas(deduped, row.child_asin)
  \/ row.ordered_product_sales >= MapGet(deduped, row.child_asin).ordered_product_sales

\* ProductPerformanceParser.deduplicate: the test that stores the row
ProductKeeps(deduped, row) ==
  \/ ~MapHas(deduped, row.child_asin)
  \/ row.ordered_product_sales > MapGet(deduped, row.child_asin).ordered_product_sales

RECURSIVE ProductDedupLoop(_, _)
ProductDedupLoop(deduped, data) ==
  IF data = << >> THEN deduped
  ELSE ProductDedupLoop(
         IF ProductKeeps(deduped, Head(data))
         THEN MapSet(deduped, Head(data).child_asin, Head(data))
         ELSE deduped,
         Tail(data))

\* ProductPerformanceParser.deduplicate
ProductDeduplicate(data) == MapValues(ProductDedupLoop(<< >>, data))

\* ParentPerformanceParser.deduplicate: the test that stores the row
ParentKeeps(deduped, row) ==
  \/ ~MapHas(deduped, row.parent_asin)
  \/ row.ordered_product_sales > MapGet(deduped, row.parent_asin).ordered_product_sales

RECURSIVE ParentDedupLoop(_, _)
ParentDedupLoop(deduped, data) ==
  IF data = << >> THEN deduped
  ELSE ParentDedupLoop(
         IF ParentKeeps(deduped, Head(data))
         THEN MapSet(deduped, Head(data).parent_asin, Head(data))
         ELSE deduped,
         Tail(data))

\* ParentPerformanceParser.deduplicate
ParentDeduplicate(data) == MapValues(ParentDedupLoop(<< >>, data))

\* SearchTermsParser.deduplicate: `${row.search_term}|${row.reporting_date}`
SearchTermKey(row) == row.search_term \o Bar \o row.reporting_date

RECURSIVE SearchTermDedupLoop(_, _)
SearchTermDedupLoop(deduped, data) ==
  IF data = << >> THEN deduped
  ELSE SearchTermDedupLoop(
         IF ~MapHas(deduped, SearchTermKey(Head(data)))
         THEN MapSet(deduped, SearchTermKey(Head(data)), Head(data))
         ELSE deduped,
         Tail(data))

\* SearchTermsParser.deduplicate
SearchTermDeduplicate(data) == MapValues(SearchTermDedupLoop(<< >>, data))

\* saveAdvertisingBulk: the dedupMap key of a parsed row
BulkKey(clientId, row) ==
  Join(<< clientId, row.report_date, row.campaign_id, row.ad_group_id, row.keyword_id >>,
       Bar)

\* saveAdvertisingBulk: the entry stored for the first row of a key
BulkEntry(clientId, row, sessionId) ==
  [client_id |-> clientId,
   report_date |-> row.report_date,
   campaign_id |-> row.campaign_id,
   ad_group_id |-> row.ad_group_id,
   keyword_id |-> row.keyword_id,
   impressions |-> row.impressions,
   clicks |-> row.clicks,
   spend |-> row.spend,
   sales |-> row.sales,
   orders |-> row.orders,
   units |-> row.units,
   data_source_type |-> "manual_upload",
   data_source_id |-> sessionId]

\* saveAdvertisingBulk: the metrics of a later row of the key are added
BulkAdd(existing, row) ==
  [existing EXCEPT !.impressions = @ + row.impressions,
                   !.clicks = @ + row.clicks,
                   !.spend = @ + row.spend,
                   !.sales = @ + row.sales,
                   !.orders = @ + row.orders,
                   !.units = @ + row.units]

RECURSIVE BulkAggregateLoop(_, _, _, _)
BulkAggregateLoop(dedupMap, clientId, data, sessionId) ==
  IF data = << >> THEN dedupMap
  ELSE LET row == Head(data)
           key == BulkKey(clientId, row)
       IN  BulkAggregateLoop(
             IF MapHas(dedupMap, key)
             THEN MapSet(dedupMap, key, BulkAdd(MapGet(dedupMap, key), row))
             ELSE MapSet(dedupMap, key, BulkEntry(clientId, row, sessionId)),
             clientId, Tail(data), sessionId)

\* saveAdvertisingBulk: the derived metrics, computed after aggregation
BulkDerived(r) ==
  [client_id |-> r.client_id, report_date |-> r.report_date,
   campaign_id |-> r.campaign_id, ad_group_id |-> r.ad_group_id,
   keyword_id |-> r.keyword_id,
   impressions |-> r.impressions, clicks |-> r.clicks, spend |-> r.spend,
   sales |-> r.sales, orders |-> r.orders, units |-> r.units,
   data_source_type |-> r.data_source_type, data_source_id |-> r.data_source_id,
   acos |-> Ratio(r.spend, r.sales),
   roas |-> Ratio(r.sales, r.spend),
   ctr |-> Ratio(r.clicks, r.impressions),
   cpc |-> Ratio(r.spend, r.clicks),
   conversion_rate |-> Ratio(r.orders, r.clicks)]

\* saveAdvertisingBulk: the records handed to the chunked upsert
BulkRecords(clientId, data, sessionId) ==
  LET values == MapValues(BulkAggregateLoop(<< >>, clientId, data, sessionId))
  IN  [i \in 1..Len(values) |-> BulkDerived(values[i])]

\* ------------------------------------------------------------ save strategies

\* { client_id: clientId, ...row, data_source_type, data_source_id }
RecordOf(client, row, sessionId) ==
  [data_source_type |-> "manual_upload", data_source_id |-> sessionId]
    @@ row @@ [client_id |-> client]

MapRecords(client, data, sessionId) ==
  [i \in 1..Len(data) |-> RecordOf(client, data[i], sessionId)]

\* saveInventory: every record carries the day of the save as snapshot_date
InventoryRecords(client, data, sessionId, day) ==
  [i \in 1..Len(data) |->
     [snapshot_date |-> isoDate(day)] @@ RecordOf(client, data[i], sessionId)]

\* saveAdvertisingReport: ad_group_id and keyword_id default to ''
AdvertisingReportRecords(client, data, sessionId) ==
  [i \in 1..Len(data) |->
     [ad_group_id |-> OrElse(data[i].ad_group_id, Empty),
      keyword_id |-> OrElse(data[i].keyword_id, Empty)]
       @@ RecordOf(client, data[i], sessionId)]

\* the records a save method hands to the store for the parsed rows
RecordsFor(reportType, client, data, sessionId, day) ==
  CASE reportType = "product_performance" ->
         MapRecords(client, ProductDeduplicate(data), sessionId)
    [] reportType = "parent_performance" ->
         MapRecords(client, ParentDeduplicate(data), sessionId)
    [] reportType = "search_terms" ->
         MapRecords(client, SearchTermDeduplicate(data), sessionId)
    [] reportType = "inventory" -> InventoryRecords(client, data, sessionId, day)
    [] reportType = "advertising_report" ->
         AdvertisingReportRecords(client, data, sessionId)
    [] reportType = "advertising_bulk" -> BulkRecords(client, data, sessionId)
    [] OTHER -> MapRecords(client, data, sessionId)

\* the save methods that send their records in chunks
Chunked(reportType) == reportType \in {"advertising_report", "advertising_bulk"}

\* chunks that take one record more than chunkSize
Chunk_OneMore(records, k) ==
  SubSeq(records, (k - 1) * chunkSize + 1,
         IF k * chunkSize + 1 < Len(records) THEN k * chunkSize + 1 ELSE Len(records))

\* records.slice(i, i + chunkSize) for the k-th chunk (k from 1)
Chunk(records, k) ==
  SubSeq(records, (k - 1) * chunkSize + 1,
         IF k * chunkSize < Len(records) THEN k * chunkSize ELSE Len(records))

\* the number of upsert calls the save method makes for its records
NumBatches(reportType, records) ==
  IF Chunked(reportType)
  THEN (Len(records) + chunkSize - 1) \div chunkSize
  ELSE 1

Batch(reportType, records, k) ==
  IF Chunked(reportType) THEN Chunk(records, k) ELSE records

\* saveAdvertisingBulk: the skuMappings of the parsed rows, first row per
\* `${row.sku}|${row.campaign_id}`
RECURSIVE SkuMappingLoop(_, _)
SkuMappingLoop(skuMappings, data) ==
  IF data = << >> THEN skuMappings
  ELSE LET row == Head(data)
           key == row.sku \o Bar \o row.campaign_id
       IN  SkuMappingLoop(
             IF row.sku # Empty /\ row.campaign_id # Empty /\ ~MapHas(skuMappings, key)
             THEN MapSet(skuMappings, key, [sku |-> row.sku, campaign_id |-> row.campaign_id])
             ELSE skuMappings,
             Tail(data))

\* saveAdvertisingBulk: mappingRecords
MappingRecords(client, data, sessionId) ==
  LET values == MapValues(SkuMappingLoop(<< >>, data))
  IN  [i \in 1..Len(values) |->
         [client_id |-> client, sku |-> values[i].sku,
          campaign_id |-> values[i].campaign_id,
          data_source_type |-> "manual_upload", data_source_id |-> sessionId]]

\* ------------------------------------------------------------------ the store

\* the columns of the UNIQUE constraint an upsert into the table names in
\* onConflict
ConflictColumns(tableName) ==
  CASE tableName = "daily_sales_traffic" -> << "client_id", "date" >>
    [] tableName = "product_performance" -> << "client_id", "child_asin" >>
    [] tableName = "parent_performance" -> << "client_id", "parent_asin" >>
    [] tableName = "search_term_performance" ->
         << "client_id", "search_term", "reporting_date" >>
    [] tableName = "inventory_snapshots" ->
         << "client_id", "sku", "warehouse_condition", "snapshot_date" >>
    [] tableName = "advertising_report_metrics" ->
         << "client_id", "report_date", "campaign_id", "ad_group_id", "keyword_id" >>
    [] tableName = "sku_campaign_mapping" -> << "client_id", "sku", "campaign_id" >>
    [] tableName = "parent_child_mapping" ->
         << "client_id", "parent_asin", "child_asin" >>
    [] tableName = "restocking_limits" ->
         << "client_id", "storage_type", "snapshot_date" >>
    [] tableName = "idq_scores" -> << "client_id", "sku", "snapshot_date" >>
    [] tableName = "sku_rankings" -> << "client_id", "asin", "snapshot_date" >>

\* the composite key of a record of the table
ConflictKey(tableName, record) ==
  [i \in 1..Len(ConflictColumns(tableName)) |-> record[ConflictColumns(tableName)[i]]]

\* the columns of type DATE among the conflict columns
DateColumns == {"date", "reporting_date", "snapshot_date", "report_date"}

\* a text the store accepts for a DATE column: a calendar day
IsDate(s) == Len(s) = 1 /\ s[1] \in {"0", "1", "2", "3", "4", "5", "6", "7", "8", "9"}

\* a stored row: its composite key, the session that wrote it, its columns
StoredRow(tableName, record) ==
  [key |-> ConflictKey(tableName, record),
   data_source_id |-> record.data_source_id,
   columns |-> record]

BatchKeys(tableName, batch) ==
  { ConflictKey(tableName, batch[i]) : i \in 1..Len(batch) }

\* the store rejects a batch that holds two records of one composite key
\* (ON CONFLICT DO UPDATE cannot affect a row a second time) or a record
\* whose DATE column is not a date
Unacceptable(tableName, batch) ==
  \/ Cardinality(BatchKeys(tableName, batch)) < Len(batch)
  \/ \E i \in 1..Len(batch), j \in 1..Len(ConflictColumns(tableName)) :
       /\ ConflictColumns(tableName)[j] \in DateColumns
       /\ ~IsDate(batch[i][ConflictColumns(tableName)[j]])

\* an upsert that inserts every record and updates none
Upserted_InsertOnly(rows, tableName, batch) ==
  rows \cup { StoredRow(tableName, batch[i]) : i \in 1..Len(batch) }

\* the rows of the table after an accepted upsert of the batch
Upserted(rows, tableName, batch) ==
  { r \in rows : r.key \notin BatchKeys(tableName, batch) }
    \cup { StoredRow(tableName, batch[i]) : i \in 1..Len(batch) }

\* a delete without its filter on data_source_id
Deleted_Unfiltered(rows, sessionId) == {}

\* the rows of the table after an accepted delete ... eq('data_source_id', id)
Deleted(rows, sessionId) == { r \in rows : r.data_source_id # sessionId }

\* -------------------------------------------------------------------- state

VARIABLES
  env,           \* the behaviour's environment: how many requests the server
                 \* runs at once, how many calls the store may reject
  input,         \* the upload request of the behaviour: report type, file
                 \* name, data lines
  today,         \* the calendar day the clock showed when last read (new Date())
  sessions,      \* table upload_sessions: session id -> row
  tables,        \* the report tables: table name -> (conflict key -> row)
  ingestionLog,  \* table data_ingestion_log, in insertion order
  up,            \* processUpload executions: upload number -> local state
  del,           \* the deleteUpload execution: local state
  calls,         \* every store call issued so far, in order
  fn,            \* SpecDedup: the deduplication step under test and its phase
  rowsIn,        \* SpecDedup: the rows handed to the step
  rowsOut,       \* SpecDedup: the rows it returned
  registry,      \* SpecParser: ParserFactory.parsers, report type -> instance
  arrays,        \* SpecParser: the error arrays allocated so far
  returned       \* SpecParser: the calls of parse so far and their results

vars == << env, input, today, sessions, tables, ingestionLog, up, del, calls,
           fn, rowsIn, rowsOut, registry, arrays, returned >>

pipelineVars == << env, input, today, sessions, tables, ingestionLog, up, del, calls >>

dedupVars == << fn, rowsIn, rowsOut >>

parserVars == << registry, arrays, returned >>

\* the one client of the model (a UUID of table clients)
clientId == << "9" >>

Uploads == 1..MaxUploads

\* all sequences over S of length at most n
SeqsUpTo(S, n) == UNION { [1..k -> S] : k \in 0..n }

TextA == << "a" >>
TextB == << "b" >>
TextC == << "c" >>
TextAB == << "a", "|", "b" >>
TextBC == << "b", "|", "c" >>

DedupIdle ==
  /\ fn = [step |-> "", done |-> FALSE]
  /\ rowsIn = << >>
  /\ rowsOut = << >>

\* requests are served one at a time and the store rejects at most MaxFaults
\* calls it could serve
Serial == [inFlight |-> MaxInFlight, faults |-> MaxFaults]

\* a parser as its constructor leaves it: `errors` is the empty array
\* allocated first (array 0 stands for it), `dateRange` is null
NewParser == [errors |-> 0, dateRange |-> NoDateRange]

\* no parser has been asked for
ParserIdle ==
  /\ registry = [t \in ValidReportTypes |-> NewParser]
  /\ arrays = << >>
  /\ returned = << >>

NoInput == [reportType |-> "", fileName |-> NoFileName, lines |-> << >>]

\* a row of upload_sessions that does not exist
NoSession ==
  [exists |-> FALSE, report_type |-> "", status |-> "", error_message |-> "",
   records_inserted |-> 0, completed_at |-> FALSE]

NoResult == [outcome |-> "none", inserted |-> 0, message |-> ""]

NoParse == [totalRows |-> 0, parsedRows |-> 0, skippedRows |-> 0, errors |-> << >>,
            dateRange |-> NoDateRange]

\* a processUpload execution that has not been requested
IdleUpload ==
  [pc |-> "idle", day |-> 0, parsed |-> NoParse, records |-> << >>, mappings |-> << >>,
   k |-> 1, inserted |-> 0, error |-> "", result |-> NoResult]

\* deleteUpload before any request: its position, the session and report
\* type it was called with, the requests so far, the length of the trace
\* when the last request started, and its result
IdleDelete == [pc |-> "idle", session |-> 0, reportType |-> "", count |-> 0,
               from |-> 0, result |-> "none"]

EmptyTables == [t \in TableNames |-> {}]

\* the state of the pipeline before any request
PipelineIdle ==
  /\ env = Serial
  /\ input = NoInput
  /\ today = 0
  /\ sessions = [u \in Uploads |-> NoSession]
  /\ tables = EmptyTables
  /\ ingestionLog = << >>
  /\ up = [u \in Uploads |-> IdleUpload]
  /\ del = IdleDelete
  /\ calls = << >>
  /\ ParserIdle

\* ----------------------------------------------------------- upload requests

\* ParserFactory.isValidReportType: `type in REPORT_TYPE_INFO`, which also
\* holds for the property names every object inherits
InheritedNames == {"toString"}

isValidReportType(type) == type \in ValidReportTypes \cup InheritedNames

\* the strings a request may name as its report type: the twelve identifiers,
\* an inherited property name, and a name that is neither
CandidateTypes == ValidReportTypes \cup InheritedNames \cup {"orders"}

\* the report types that pass the controller's validation
RequestTypes == { t \in CandidateTypes : isValidReportType(t) }

Line(c0, c1, c2, n, entity) ==
  [c0 |-> c0, c1 |-> c1, c2 |-> c2, n |-> n, entity |-> entity]

\* the data lines of the model for each report type: two or three lines of
\* different composite keys, a line that repeats a key with another metric,
\* and a line without the required identifier
LinesOf(reportType) ==
  CASE reportType = "daily_sales" ->
         { Line(isoDate(0), Empty, Empty, 1, ""), Line(isoDate(1), Empty, Empty, 1, ""),
           Line(isoDate(0), Empty, Empty, 2, ""), Line(Empty, Empty, Empty, 1, "") }
    [] reportType \in {"product_performance", "parent_performance"} ->
         { Line(TextA, Empty, Empty, 1, ""), Line(TextB, Empty, Empty, 1, ""),
           Line(TextA, Empty, Empty, 2, ""), Line(Empty, TextC, Empty, 1, "") }
    [] reportType = "search_terms" ->
         { Line(TextA, Empty, Empty, 1, ""), Line(TextA, isoDate(0), Empty, 2, ""),
           Line(TextAB, isoDate(0), Empty, 1, ""),
           Line(TextA, TextB \o Bar \o isoDate(0), Empty, 1, ""),
           Line(Empty, isoDate(0), Empty, 1, "") }
    [] reportType = "inventory" ->
         { Line(TextA, TextA, Empty, 1, ""), Line(TextB, TextB, Empty, 1, ""),
           Line(TextA, TextA, Empty, 2, ""), Line(Empty, TextB, Empty, 1, "") }
    [] reportType = "advertising_report" ->
         { Line(TextA, Empty, Empty, 1, ""), Line(TextB, TextC, Empty, 1, ""),
           Line(TextA, TextC, Empty, 1, ""), Line(TextA, Empty, Empty, 2, ""),
           Line(Empty, TextC, Empty, 1, "") }
    [] reportType \in {"sku_campaign_mapping", "parent_child"} ->
         { Line(TextA, TextC, Empty, 1, ""), Line(TextB, TextC, Empty, 1, ""),
           Line(Empty, TextC, Empty, 1, ""), Line(TextA, Empty, Empty, 1, "") }
    [] reportType \in {"restocking_limits", "idq_scores", "sku_rankings"} ->
         { Line(TextA, Empty, Empty, 1, ""), Line(TextB, Empty, Empty, 1, ""),
           Line(TextA, isoDate(0), Empty, 2, ""), Line(Empty, Empty, Empty, 1, "") }
    [] reportType = "advertising_bulk" ->
         { Line(TextA, TextC, Empty, 1, "keyword"),
           Line(TextAB, TextC, Empty, 1, "keyword"),
           Line(TextA, TextBC, Empty, 2, "keyword"),
           Line(TextA, Empty, TextC, 1, "product ad"),
           Line(Empty, TextC, Empty, 1, "keyword") }
    [] OTHER -> {}

\* the files of the model: up to MaxLines data lines, pairwise different
FilesOf(reportType) ==
  { l \in SeqsUpTo(LinesOf(reportType), MaxLines) :
      \A i, j \in 1..Len(l) : i # j => l[i] # l[j] }

\* the file name of the specification's example, and one without dates
DatedFileName ==
  << "b", "u", "l", "k", "-", "x", "y", "z", "-",
     "2", "0", "2", "5", "0", "1", "0", "1", "-",
     "2", "0", "2", "5", "0", "1", "3", "1", "-",
     "a", "b", "c", ".", "x", "l", "s", "x" >>

UndatedFileName == << "b", "u", "l", "k", ".", "x", "l", "s", "x" >>

\* the file names of the model: a bulk workbook is named with or without its
\* date range, the name of a text file is left out
FileNamesOf(reportType) ==
  IF reportType = "advertising_bulk" THEN {DatedFileName, UndatedFileName}
  ELSE {NoFileName}

Requests ==
  UNION { { [reportType |-> t, fileName |-> f, lines |-> l] :
              f \in FileNamesOf(t), l \in FilesOf(t) } : t \in RequestTypes }

\* ------------------------------------------------------------ IngestionLogger

StoreMessage == "rejected by the store"

\* a store call of the trace: what was asked, for which session, whether the
\* store could serve it, and whether it did ({ data, error } without error)
Call(op, table, session, servable, ok, status) ==
  [op |-> op, table |-> table, session |-> session, servable |-> servable,
   ok |-> ok, status |-> status]

Faults == Cardinality({ i \in 1..Len(calls) : calls[i].servable /\ ~calls[i].ok })

\* the outcomes the store may give a call it could serve: it accepts, or
\* (while the model's budget of faults lasts) rejects
Outcomes == IF Faults < env.faults THEN {TRUE, FALSE} ELSE {TRUE}

\* the outcomes of an upsert: a batch the store cannot accept is rejected
UpsertOutcomes(tableName, batch) ==
  IF Unacceptable(tableName, batch) THEN {FALSE} ELSE Outcomes

\* the requests (processUpload, deleteUpload) being served
InFlight ==
  Cardinality({ u \in Uploads : up[u].pc \notin {"idle", "done"} })
    + (IF del.pc = "idle" THEN 0 ELSE 1)

\* updateUploadSession: the row after the update; a rejected update is only
\* logged, an update of a deleted row changes nothing
updateUploadSession(rows, sessionId, ok, status, recordsInserted, errorMessage) ==
  IF ok /\ rows[sessionId].exists
  THEN [rows EXCEPT ![sessionId] =
          [@ EXCEPT !.status = status,
                    !.records_inserted = recordsInserted,
                    !.error_message = IF errorMessage # "" THEN errorMessage ELSE @,
                    !.completed_at = IF status \in {"completed", "failed"} THEN TRUE ELSE @]]
  ELSE rows

\* processUpload, first step: createUploadSession inserts the 'pending' row
\* and throws when the store rejects the insert
CreateSession(u) ==
  /\ up[u].pc = "idle"
  /\ \A v \in Uploads : v < u => up[v].pc # "idle"
  /\ InFlight < env.inFlight
  /\ \E ok \in Outcomes :
       /\ calls' = Append(calls, Call("insert", "upload_sessions", u, TRUE, ok, "pending"))
       /\ IF ok
          THEN /\ sessions' = [sessions EXCEPT ![u] =
                    [exists |-> TRUE, report_type |-> input.reportType,
                     status |-> "pending", error_message |-> "",
                     records_inserted |-> 0, completed_at |-> FALSE]]
               /\ up' = [up EXCEPT ![u].pc = "created"]
          ELSE /\ sessions' = sessions
               /\ up' = [up EXCEPT ![u].pc = "done",
                                   ![u].result =
                                     [outcome |-> "thrown", inserted |-> 0,
                                      message |-> "Failed to create upload session: "
                                                    \o StoreMessage]]
  /\ UNCHANGED << env, input, today, tables, ingestionLog, del, dedupVars, parserVars >>

\* processUpload: await markSessionProcessing(sessionId)
MarkProcessing(u) ==
  /\ up[u].pc = "created"
  /\ \E ok \in Outcomes :
       /\ calls' = Append(calls, Call("update", "upload_sessions", u, TRUE, ok, "processing"))
       /\ sessions' = updateUploadSession(sessions, u, ok, "processing",
                                          sessions[u].records_inserted, "")
  /\ up' = [up EXCEPT ![u].pc = "processing"]
  /\ UNCHANGED << env, input, today, tables, ingestionLog, del, dedupVars, parserVars >>

\* processUpload: getParser, parse, and the synchronous part of saveData up
\* to its first store call (deduplication, aggregation, record building).
\* The parsers and saveInventory read the clock; it never runs backwards.
Parse(u) ==
  /\ up[u].pc = "processing"
  /\ today' \in today..MaxDay
  /\ IF getParser(input.reportType).error # ""
     THEN up' = [up EXCEPT ![u].pc = "failing", ![u].day = today',
                           ![u].error = getParser(input.reportType).error]
     ELSE \E parseResult \in {parse(input.reportType, input.lines, today')} :
          LET meta == [totalRows |-> parseResult.metadata.totalRows,
                       parsedRows |-> parseResult.metadata.parsedRows,
                       skippedRows |-> parseResult.metadata.skippedRows,
                       errors |-> parseResult.errors,
                       dateRange |-> parseResult.metadata.dateRange]
          IN  IF Len(parseResult.data) = 0
              THEN up' = [up EXCEPT ![u].pc = "completing", ![u].day = today',
                                        ![u].parsed = meta]
              ELSE up' = [up EXCEPT
                     ![u].pc = "saving",
                     ![u].day = today',
                     ![u].parsed = meta,
                     ![u].records = RecordsFor(input.reportType, clientId,
                                               parseResult.data, u, today'),
                     ![u].mappings = IF input.reportType = "advertising_bulk"
                                     THEN MappingRecords(clientId, parseResult.data, u)
                                     ELSE << >>]
  /\ UNCHANGED << env, input, sessions, tables, ingestionLog, del, calls, dedupVars, parserVars >>

\* save<Type>: one upsert call (the only one, or the chunk of the loop) and
\* what follows it up to the next store call
SaveBatch(u) ==
  /\ up[u].pc = "saving"
  /\ LET tableName == TableNameOf(input.reportType)
         batch == Batch(input.reportType, up[u].records, up[u].k)
         last == up[u].k = NumBatches(input.reportType, up[u].records)
     IN  \E ok \in UpsertOutcomes(tableName, batch) :
           /\ calls' = Append(calls, Call("upsert", tableName, u,
                                          ~Unacceptable(tableName, batch), ok, ""))
           /\ IF ok
              THEN /\ tables' = [tables EXCEPT ![tableName] =
                                   Upserted(@, tableName, batch)]
                   /\ up' = [up EXCEPT
                        ![u].inserted = @ + Len(batch),
                        ![u].k = IF last THEN @ ELSE @ + 1,
                        ![u].pc = IF ~last THEN "saving"
                                  ELSE IF up[u].mappings # << >> THEN "mapping"
                                  ELSE "logging"]
              ELSE /\ tables' = tables
                   /\ up' = [up EXCEPT ![u].pc = "failing",
                                       ![u].error = "Database error: " \o StoreMessage]
  /\ UNCHANGED << env, input, today, sessions, ingestionLog, del, dedupVars, parserVars >>

\* saveAdvertisingBulk: the upsert of the SKU-campaign mappings, whose
\* rejection is logged and not thrown
SaveMappings(u) ==
  /\ up[u].pc = "mapping"
  /\ \E ok \in UpsertOutcomes("sku_campaign_mapping", up[u].mappings) :
       /\ calls' = Append(calls,
            Call("upsert", "sku_campaign_mapping", u,
                 ~Unacceptable("sku_campaign_mapping", up[u].mappings), ok, ""))
       /\ tables' = IF ok
                    THEN [tables EXCEPT !["sku_campaign_mapping"] =
                            Upserted(@, "sku_campaign_mapping", up[u].mappings)]
                    ELSE tables
  /\ up' = [up EXCEPT ![u].pc = "logging"]
  /\ UNCHANGED << env, input, today, sessions, ingestionLog, del, dedupVars, parserVars >>

\* processUpload: await logIngestion(...); a rejected insert is only logged
LogIngestion(u) ==
  /\ up[u].pc = "logging"
  /\ \E ok \in Outcomes :
       /\ calls' = Append(calls, Call("insert", "data_ingestion_log", u, TRUE, ok, ""))
       /\ ingestionLog' =
            IF ok
            THEN Append(ingestionLog,
                        [source_id |-> u,
                         table_name |-> TableNameOf(input.reportType),
                         record_count |-> up[u].inserted,
                         date_range_start |-> up[u].parsed.dateRange.start,
                         date_range_end |-> up[u].parsed.dateRange.end])
            ELSE ingestionLog
  /\ up' = [up EXCEPT ![u].pc = "completing"]
  /\ UNCHANGED << env, input, today, sessions, tables, del, dedupVars, parserVars >>

\* processUpload: await markSessionCompleted(...) and the success result
MarkCompleted(u) ==
  /\ up[u].pc = "completing"
  /\ \E ok \in Outcomes :
       /\ calls' = Append(calls, Call("update", "upload_sessions", u, TRUE, ok, "completed"))
       /\ sessions' = updateUploadSession(sessions, u, ok, "completed",
                                          up[u].inserted, "")
  /\ up' = [up EXCEPT ![u].pc = "done",
                      ![u].result = [outcome |-> "success",
                                     inserted |-> up[u].inserted, message |-> ""]]
  /\ UNCHANGED << env, input, today, tables, ingestionLog, del, dedupVars, parserVars >>

\* processUpload, catch: await markSessionFailed(sessionId, message); throw
MarkFailed(u) ==
  /\ up[u].pc = "failing"
  /\ \E ok \in Outcomes :
       /\ calls' = Append(calls, Call("update", "upload_sessions", u, TRUE, ok, "failed"))
       /\ sessions' = updateUploadSession(sessions, u, ok, "failed",
                                          sessions[u].records_inserted, up[u].error)
  /\ up' = [up EXCEPT ![u].pc = "done",
                      ![u].result = [outcome |-> "thrown", inserted |-> 0,
                                     message |-> up[u].error]]
  /\ UNCHANGED << env, input, today, tables, ingestionLog, del, dedupVars, parserVars >>

\* ---------------------------------------------------------------- deleteUpload

\* controller: the session row is read; the service is called if it exists
DeleteStart(s) ==
  /\ del.pc = "idle"
  /\ del.count < MaxDeletes
  /\ InFlight < env.inFlight
  /\ sessions[s].exists
  /\ del' = [pc |-> "data", session |-> s, reportType |-> sessions[s].report_type,
             count |-> del.count + 1, from |-> Len(calls), result |-> "none"]
  /\ UNCHANGED << env, input, today, sessions, tables, ingestionLog, up, calls, dedupVars, parserVars >>

\* deleteUpload: delete the rows of the report table tagged with the session;
\* a rejection is logged. tableMap[reportType] of an inherited name is not a
\* table, the store rejects the call
DeleteData ==
  /\ del.pc = "data"
  /\ LET known == del.reportType \in ValidReportTypes
         tableName == IF known THEN TableNameOf(del.reportType) ELSE del.reportType
     IN  \E ok \in IF known THEN Outcomes ELSE {FALSE} :
           /\ calls' = Append(calls, Call("delete", tableName, del.session, known, ok, ""))
           /\ tables' = IF ok
                        THEN [tables EXCEPT ![tableName] = Deleted(@, del.session)]
                        ELSE tables
  /\ del' = [del EXCEPT !.pc = "log"]
  /\ UNCHANGED << env, input, today, sessions, ingestionLog, up, dedupVars, parserVars >>

\* a deleteUpload that raises the rejection of the audit-log delete
DeleteLog_Throws ==
  /\ del.pc = "log"
  /\ \E ok \in Outcomes :
       /\ calls' = Append(calls, Call("delete", "data_ingestion_log", del.session,
                                      TRUE, ok, ""))
       /\ ingestionLog' =
            IF ok
            THEN SelectSeq(ingestionLog, LAMBDA e : e.source_id # del.session)
            ELSE ingestionLog
       /\ del' = IF ok THEN [del EXCEPT !.pc = "session"]
                 ELSE [del EXCEPT !.pc = "idle", !.result = "thrown"]
  /\ UNCHANGED << env, input, today, sessions, tables, up, dedupVars, parserVars >>

\* deleteUpload: delete the audit-log rows of the session; a rejection is logged
DeleteLog ==
  /\ del.pc = "log"
  /\ \E ok \in Outcomes :
       /\ calls' = Append(calls, Call("delete", "data_ingestion_log", del.session, TRUE, ok, ""))
       /\ ingestionLog' =
            IF ok
            THEN SelectSeq(ingestionLog, LAMBDA e : e.source_id # del.session)
            ELSE ingestionLog
  /\ del' = [del EXCEPT !.pc = "session"]
  /\ UNCHANGED << env, input, today, sessions, tables, up, dedupVars, parserVars >>

\* deleteUpload: delete the session row; a rejection is thrown
DeleteSession ==
  /\ del.pc = "session"
  /\ \E ok \in Outcomes :
       /\ calls' = Append(calls, Call("delete", "upload_sessions", del.session, TRUE, ok, ""))
       /\ sessions' = IF ok THEN [sessions EXCEPT ![del.session] = NoSession]
                      ELSE sessions
       /\ del' = [del EXCEPT !.pc = "idle",
                             !.result = IF ok THEN "success" ELSE "thrown"]
  /\ UNCHANGED << env, input, today, tables, ingestionLog, up, dedupVars, parserVars >>

Init ==
  /\ env = Serial
  /\ input \in Requests
  /\ today = 0
  /\ sessions = [u \in Uploads |-> NoSession]
  /\ tables = EmptyTables
  /\ ingestionLog = << >>
  /\ up = [u \in Uploads |-> IdleUpload]
  /\ del = IdleDelete
  /\ calls = << >>
  /\ DedupIdle
  /\ ParserIdle

Next ==
  \/ \E u \in Uploads :
       \/ CreateSession(u)
       \/ MarkProcessing(u)
       \/ Parse(u)
       \/ SaveBatch(u)
       \/ SaveMappings(u)
       \/ LogIngestion(u)
       \/ MarkCompleted(u)
       \/ MarkFailed(u)
  \/ \E s \in Uploads : DeleteStart(s)
  \/ DeleteData
  \/ DeleteLog
  \/ DeleteSession

Spec == Init /\ [][Next]_vars

\* ------------------------------------- advertising-bulk uploads on their own
\* processUpload of an advertising-bulk workbook, served one request at a
\* time, against a store that may reject one call more than in Spec (the
\* mapping upsert and one other call).

TwoFaults == [inFlight |-> MaxInFlight, faults |-> MaxFaults + 1]

BulkRequests == { r \in Requests : r.reportType = "advertising_bulk" }

BulkInit ==
  /\ env = TwoFaults
  /\ input \in BulkRequests
  /\ today = 0
  /\ sessions = [u \in Uploads |-> NoSession]
  /\ tables = EmptyTables
  /\ ingestionLog = << >>
  /\ up = [u \in Uploads |-> IdleUpload]
  /\ del = IdleDelete
  /\ calls = << >>
  /\ DedupIdle
  /\ ParserIdle

UploadNext ==
  \E u \in Uploads :
    \/ CreateSession(u)
    \/ MarkProcessing(u)
    \/ Parse(u)
    \/ SaveBatch(u)
    \/ SaveMappings(u)
    \/ LogIngestion(u)
    \/ MarkCompleted(u)
    \/ MarkFailed(u)

SpecBulk == BulkInit /\ [][UploadNext]_vars

\* ----------------------------------------------- uploads served concurrently
\* The server awaits every store call, so the processUpload executions of
\* requests that arrive together interleave at their store calls. Every
\* request uploads the same advertising report or bulk workbook for the one
\* client.

Concurrent == [inFlight |-> MaxUploads, faults |-> MaxFaults]

\* the data lines of the concurrent uploads: for an advertising report two
\* campaigns and a second line for the first one, for a bulk workbook a
\* keyword row and a product-ad row that names a SKU
ConcurrentLines ==
  { Line(TextA, Empty, Empty, 1, ""), Line(TextB, TextC, Empty, 1, ""),
    Line(TextA, Empty, Empty, 2, ""),
    Line(TextA, TextC, Empty, 1, "keyword"), Line(TextA, Empty, TextC, 1, "product ad") }

ConcurrentRequests ==
  { r \in Requests :
      /\ r.reportType \in {"advertising_report", "advertising_bulk"}
      /\ r.fileName # DatedFileName
      /\ \A i \in 1..Len(r.lines) : r.lines[i] \in ConcurrentLines }

ConcurrentInit ==
  /\ env = Concurrent
  /\ input \in ConcurrentRequests
  /\ today = 0
  /\ sessions = [u \in Uploads |-> NoSession]
  /\ tables = EmptyTables
  /\ ingestionLog = << >>
  /\ up = [u \in Uploads |-> IdleUpload]
  /\ del = IdleDelete
  /\ calls = << >>
  /\ DedupIdle
  /\ ParserIdle

SpecConcurrent == ConcurrentInit /\ [][UploadNext]_vars

\* ------------------------------------------------- the parsers on their own
\* ParserFactory keeps one instance per report type; parse is called on it
\* with any content and file name, one call after the other (parse does not
\* await). An instance holds `errors` (BaseParser) and, for the bulk parser,
\* `dateRange`; an array is a position in `arrays`.

ParserTypes == {"advertising_bulk", "daily_sales"}

\* the contents of the calls: no data line or one
ParserFiles(reportType) == { l \in FilesOf(reportType) : Len(l) <= 1 }

\* parser.parse(content, filename) on the instance of the registry:
\* resetErrors assigns a new array, the bulk parser reads and writes its
\* dateRange, createResult returns the instance's array as `errors`
ParserParse(reportType, lines, filename) ==
  /\ Len(returned) < MaxParseCalls
  /\ today' \in today..MaxDay
  /\ LET bulk == parseBulkOn(registry[reportType].dateRange, lines, filename, today')
         result == IF reportType = "advertising_bulk" THEN bulk.result
                   ELSE parse(reportType, lines, today')
         array == Len(arrays) + 1
     IN  /\ arrays' = Append(arrays, result.errors)
         /\ registry' = [registry EXCEPT ![reportType] =
                           [errors |-> array,
                            dateRange |-> IF reportType = "advertising_bulk"
                                          THEN bulk.dateRange ELSE @.dateRange]]
         /\ returned' = Append(returned,
                               [reportType |-> reportType, lines |-> lines,
                                filename |-> filename, day |-> today',
                                data |-> result.data, errors |-> array,
                                metadata |-> result.metadata])
  /\ UNCHANGED << env, input, sessions, tables, ingestionLog, up, del, calls, dedupVars >>

ParserInit == PipelineIdle /\ DedupIdle

ParserNext ==
  \E reportType \in ParserTypes :
    \E lines \in ParserFiles(reportType), filename \in FileNamesOf(reportType) :
      ParserParse(reportType, lines, filename)

SpecParser == ParserInit /\ [][ParserNext]_vars

\* --------------------------------------------- the parsers on whole files
\* parse(content) of every delimited-text parser on files with header lines,
\* blank lines and data lines.

DelimitedTypes == ValidReportTypes \ {"advertising_bulk"}

BlankLine == [blank |-> TRUE, header |-> FALSE, cells |-> Line(Empty, Empty, Empty, 0, "")]

HeaderLine == [blank |-> FALSE, header |-> TRUE, cells |-> Line(Empty, Empty, Empty, 0, "")]

DataLine(cells) == [blank |-> FALSE, header |-> FALSE, cells |-> cells]

\* first fields of daily-sales lines: MM/DD/YY, YYYY-MM-DD, a text that is
\* no date, and nothing
SlashDate == << "1", "/", "2", "/", "2", "5" >>

DashDate == << "2", "0", "2", "5", "-", "0", "1", "-", "0", "2" >>

NoDate == << "a", "b", "c" >>

\* the data lines of the files: two lines the parser accepts and one it
\* rejects, per report type
FileLinesOf(reportType) ==
  IF reportType = "daily_sales"
  THEN { Line(SlashDate, Empty, Empty, 1, ""), Line(DashDate, Empty, Empty, 1, ""),
         Line(NoDate, Empty, Empty, 1, ""), Line(Empty, Empty, Empty, 1, "") }
  ELSE { l \in LinesOf(reportType) : l.n = 1 /\ l.c0 \in {TextA, Empty} }

\* a file starts with its header line(s); blank lines may stand anywhere
WellFormed(reportType, content) ==
  LET lines == NonBlankLines(content)
  IN  /\ Len(lines) >= HeaderLines(reportType)
      /\ \A i \in 1..Len(lines) : lines[i].header <=> i <= HeaderLines(reportType)

FileContents(reportType) ==
  { content \in SeqsUpTo({BlankLine, HeaderLine}
                           \cup { DataLine(l) : l \in FileLinesOf(reportType) },
                         MaxFileLines) :
      WellFormed(reportType, content) }

\* the rows of a sheet: a keyword row, a product-ad row, a row without
\* campaign id
SheetLines ==
  { Line(TextA, TextC, Empty, 1, "keyword"), Line(TextA, Empty, TextC, 1, "product ad"),
    Line(Empty, TextC, Empty, 1, "keyword") }

\* the workbooks of the model with their file names: unreadable ones, and
\* ones whose sheets yield rows or throw
Workbooks ==
  { [workbook |-> workbook, filename |-> filename] :
      workbook \in { Unreadable("Unsupported file") }
                     \cup { Workbook(sheets) :
                              sheets \in SeqsUpTo({ BrokenSheet("Bad sheet") }
                                                    \cup { Sheet(lines) :
                                                             lines \in SeqsUpTo(SheetLines,
                                                                                MaxSheetRows) },
                                                  MaxSheets) },
      filename \in FileNamesOf("advertising_bulk") }

FileInit ==
  /\ PipelineIdle
  /\ \/ \E reportType \in DelimitedTypes :
          /\ fn = [step |-> reportType, done |-> FALSE]
          /\ rowsIn \in FileContents(reportType)
     \/ /\ fn = [step |-> "advertising_bulk", done |-> FALSE]
        /\ rowsIn \in Workbooks
  /\ rowsOut = << >>

\* parser.parse(content) on the day the clock shows
RunParseContent ==
  /\ fn.step \in DelimitedTypes
  /\ ~fn.done
  /\ today' \in today..MaxDay
  /\ rowsOut' = parseContent(fn.step, rowsIn, today')
  /\ fn' = [fn EXCEPT !.done = TRUE]
  /\ UNCHANGED << env, input, sessions, tables, ingestionLog, up, del, calls, rowsIn,
                  parserVars >>

\* AdvertisingBulkParser.parse(content, filename) on a fresh instance, on the
\* day the clock shows
RunParseWorkbook ==
  /\ fn.step = "advertising_bulk"
  /\ ~fn.done
  /\ today' \in today..MaxDay
  /\ rowsOut' = parseWorkbookOn(NoDateRange, rowsIn.workbook, rowsIn.filename, today').result
  /\ fn' = [fn EXCEPT !.done = TRUE]
  /\ UNCHANGED << env, input, sessions, tables, ingestionLog, up, del, calls, rowsIn,
                  parserVars >>

FileNext == RunParseContent \/ RunParseWorkbook

SpecFile == FileInit /\ [][FileNext]_vars

\* ------------------------------------------- the session tracker on its own
\* The public operations of IngestionLoggerService on upload_sessions, called
\* in any order by any caller.

TrackerBusy == Len(calls) >= MaxTrackerCalls

\* createUploadSession: inserts the 'pending' row of the next session id
createUploadSession(s) ==
  /\ ~TrackerBusy
  /\ ~sessions[s].exists
  /\ \A v \in Uploads : v < s => sessions[v].exists
  /\ \E ok \in Outcomes :
       /\ calls' = Append(calls, Call("insert", "upload_sessions", s, TRUE, ok, "pending"))
       /\ sessions' = IF ok
                      THEN [sessions EXCEPT ![s] =
                              [exists |-> TRUE, report_type |-> "daily_sales",
                               status |-> "pending", error_message |-> "",
                               records_inserted |-> 0, completed_at |-> FALSE]]
                      ELSE sessions
  /\ UNCHANGED << env, input, today, tables, ingestionLog, up, del, dedupVars, parserVars >>

\* markSessionProcessing(sessionId)
markSessionProcessing(s) ==
  /\ ~TrackerBusy
  /\ \E ok \in Outcomes :
       /\ calls' = Append(calls, Call("update", "upload_sessions", s, TRUE, ok, "processing"))
       /\ sessions' = updateUploadSession(sessions, s, ok, "processing",
                                          sessions[s].records_inserted, "")
  /\ UNCHANGED << env, input, today, tables, ingestionLog, up, del, dedupVars, parserVars >>

\* markSessionCompleted(sessionId, stats)
markSessionCompleted(s, recordsInserted) ==
  /\ ~TrackerBusy
  /\ \E ok \in Outcomes :
       /\ calls' = Append(calls, Call("update", "upload_sessions", s, TRUE, ok, "completed"))
       /\ sessions' = updateUploadSession(sessions, s, ok, "completed", recordsInserted, "")
  /\ UNCHANGED << env, input, today, tables, ingestionLog, up, del, dedupVars, parserVars >>

\* markSessionFailed(sessionId, error)
markSessionFailed(s, error) ==
  /\ ~TrackerBusy
  /\ \E ok \in Outcomes :
       /\ calls' = Append(calls, Call("update", "upload_sessions", s, TRUE, ok, "failed"))
       /\ sessions' = updateUploadSession(sessions, s, ok, "failed",
                                          sessions[s].records_inserted, error)
  /\ UNCHANGED << env, input, today, tables, ingestionLog, up, del, dedupVars, parserVars >>

TrackerInit == PipelineIdle /\ DedupIdle

TrackerNext ==
  \E s \in Uploads :
    \/ createUploadSession(s)
    \/ markSessionProcessing(s)
    \/ \E n \in 0..1 : markSessionCompleted(s, n)
    \/ \E error \in {"Unknown error", "Database error: " \o StoreMessage} :
         markSessionFailed(s, error)

SpecTracker == TrackerInit /\ [][TrackerNext]_vars

\* --------------------------------------- the deduplication steps on their own

ProductRows ==
  [child_asin : {TextA, TextB}, parent_asin : {TextA, TextB},
   ordered_product_sales : 0..2]

ParentRows ==
  [parent_asin : {TextA, TextB}, title : {TextA, TextB},
   ordered_product_sales : 0..2]

SearchTermRows ==
  [search_term : {TextA, TextAB}, reporting_date : {TextC, TextBC},
   clicks_total : 1..2]

\* the metrics of a bulk sheet row: impressions, clicks, spend, sales,
\* orders, units and the click-through rate cell of the sheet
BulkMetrics ==
  { << 10, 1, 2, 0, 1, 1, << 10, 1 >> >>,
    << 20, 2, 0, 3, 0, 2, << 10, 1 >> >>,
    << 10, 1, 2, 0 - 3, 1, 1, << 10, 1 >> >>,
    << 0, 0, 0, 0, 0, 0, << 0, 1 >> >> }

\* the cells of a percentage column: numbers below, at and above 1, texts
\* with and without a percent sign, a text that is no number, and no cell
PercentageCells ==
  { NumberCell(0), NumberCell(Fixed(0, 25)), NumberCell(Fixed(0, 99)),
    NumberCell(Fixed(1, 0)), NumberCell(Fixed(25, 0)), NumberCell(0 - Fixed(0, 50)),
    TextCell(<< "0", ".", "2", "5" >>), TextCell(<< "2", "5", "%" >>),
    TextCell(<< "2", "5" >>), TextCell(<< " ", "5", ".", "5", "%" >>),
    TextCell(<< "a", "b", "c" >>), TextCell(Empty), NoCell }

\* the texts of a type, category or action column: words the normalizers
\* know, in several spellings, and words they do not know
TypeCells ==
  { << "S", "B" >>,
    << "S", "p", "o", "n", "s", "o", "r", "e", "d", " ", "P", "r", "o", "d", "u", "c", "t", "s" >>,
    << "v", "i", "d", "e", "o" >>,
    << "A", "u", "t", "o" >>,
    << "S", "t", "a", "n", "d", "a", "r", "d", "-", "S", "i", "z", "e" >>,
    << "S", "h", "o", "e", "s" >>,
    << "b", "u", "l", "k", "y" >>,
    << "L", "i", "q", "u", "i", "d", "a", "t", "e" >>,
    << "P", "r", "o", "m", "o", "t", "e" >>,
    << "k", "e", "e", "p" >> }

\* the metrics of an advertising report row: impressions, clicks, spend,
\* sales, orders
AdvertisingMetrics ==
  { << 10, 1, 2, 4, 1 >>, << 0, 0, 0, 0, 0 >>, << 10, 2, 0, 3, 0 >>,
    << 10, 1, 2, 0 - 3, 1 >>, << 5, 0, 2, 0, 1 >> }

\* the header row of each flexible-schema parser's "Expected columns" comment
ExpectedColumns(step) ==
  CASE step = "advertising_expected" ->
         << << "D", "a", "t", "e" >>,
               << "C", "a", "m", "p", "a", "i", "g", "n", " ", "I", "D" >>,
               << "C", "a", "m", "p", "a", "i", "g", "n", " ", "N", "a", "m", "e" >>,
               << "C", "a", "m", "p", "a", "i", "g", "n", " ", "S", "t", "a", "t", "u", "s" >>,
               << "A", "d", " ", "G", "r", "o", "u", "p", " ", "I", "D" >>,
               << "A", "d", " ", "G", "r", "o", "u", "p", " ", "N", "a", "m", "e" >>,
               << "K", "e", "y", "w", "o", "r", "d", " ", "I", "D" >>,
               << "K", "e", "y", "w", "o", "r", "d" >>,
               << "M", "a", "t", "c", "h", " ", "T", "y", "p", "e" >>,
               << "T", "a", "r", "g", "e", "t", "i", "n", "g" >>,
               << "I", "m", "p", "r", "e", "s", "s", "i", "o", "n", "s" >>,
               << "C", "l", "i", "c", "k", "s" >>,
               << "S", "p", "e", "n", "d" >>,
               << "S", "a", "l", "e", "s" >>,
               << "O", "r", "d", "e", "r", "s" >>,
               << "U", "n", "i", "t", "s" >> >>
    [] step = "sku_expected" ->
         << << "S", "K", "U" >>,
               << "A", "S", "I", "N" >>,
               << "C", "a", "m", "p", "a", "i", "g", "n", " ", "I", "D" >>,
               << "C", "a", "m", "p", "a", "i", "g", "n", " ", "N", "a", "m", "e" >>,
               << "A", "d", " ", "G", "r", "o", "u", "p", " ", "I", "D" >>,
               << "A", "d", " ", "G", "r", "o", "u", "p", " ", "N", "a", "m", "e" >>,
               << "C", "a", "m", "p", "a", "i", "g", "n", " ", "T", "y", "p", "e" >>,
               << "T", "a", "r", "g", "e", "t", "i", "n", "g", " ", "T", "y", "p", "e" >> >>
    [] step = "parent_child_expected" ->
         << << "P", "a", "r", "e", "n", "t", " ", "A", "S", "I", "N" >>,
               << "C", "h", "i", "l", "d", " ", "A", "S", "I", "N" >>,
               << "R", "e", "l", "a", "t", "i", "o", "n", "s", "h", "i", "p", " ", "T", "y", "p", "e" >>,
               << "C", "o", "l", "o", "r" >>,
               << "S", "i", "z", "e" >>,
               << "S", "t", "y", "l", "e" >> >>
    [] step = "rankings_expected" ->
         << << "A", "S", "I", "N" >>,
               << "S", "K", "U" >>,
               << "C", "a", "t", "e", "g", "o", "r", "y", " ", "R", "a", "n", "k" >>,
               << "C", "a", "t", "e", "g", "o", "r", "y" >>,
               << "S", "u", "b", "c", "a", "t", "e", "g", "o", "r", "y", " ", "R", "a", "n", "k" >>,
               << "S", "u", "b", "c", "a", "t", "e", "g", "o", "r", "y" >>,
               << "P", "r", "i", "c", "e" >>,
               << "F", "B", "A", " ", "P", "r", "i", "c", "e" >>,
               << "B", "u", "y", " ", "B", "o", "x", " ", "P", "r", "i", "c", "e" >>,
               << "B", "u", "y", " ", "B", "o", "x", " ", "S", "e", "l", "l", "e", "r" >>,
               << "R", "e", "v", "i", "e", "w", "s" >>,
               << "R", "a", "t", "i", "n", "g" >>,
               << "D", "r", "o", "p", "s", " ", "3", "0", "d" >>,
               << "D", "r", "o", "p", "s", " ", "9", "0", "d" >>,
               << "E", "s", "t", " ", "M", "o", "n", "t", "h", "l", "y", " ", "S", "a", "l", "e", "s" >>,
               << "D", "a", "t", "e" >> >>

ExpectedSteps ==
  {"advertising_expected", "sku_expected", "parent_child_expected", "rankings_expected"}

\* header cells of an uploaded sheet
HeaderCells ==
  { << "S", "K", "U" >>,
    << "S", "e", "l", "l", "e", "r", " ", "S", "K", "U" >>,
    << "A", "S", "I", "N" >>,
    << "C", "a", "m", "p", "a", "i", "g", "n", " ", "I", "D" >>,
    << "C", "a", "m", "p", "a", "i", "g", "n", " ", "N", "a", "m", "e" >>,
    << " ", "c", "a", "m", "p", "a", "i", "g", "n", " ", "t", "y", "p", "e" >>,
    << "T", "a", "r", "g", "e", "t", "i", "n", "g" >>,
    << "D", "a", "t", "e" >> }

BulkRows ==
  { [report_date |-> isoDate(0), campaign_id |-> c, ad_group_id |-> g,
     keyword_id |-> Empty, sku |-> Empty,
     impressions |-> m[1], clicks |-> m[2], spend |-> m[3], sales |-> m[4],
     orders |-> m[5], units |-> m[6], ctr |-> m[7]]
    : c \in {TextA, TextAB}, g \in {TextC, TextBC}, m \in BulkMetrics }

DedupSteps ==
  {"product", "parent", "search_terms", "bulk", "percentage", "derived",
   "sku_columns", "advertising_columns", "normalize"} \cup ExpectedSteps

DedupInputs(step) ==
  CASE step = "product" -> SeqsUpTo(ProductRows, MaxRows)
    [] step = "parent" -> SeqsUpTo(ParentRows, MaxRows)
    [] step = "search_terms" -> SeqsUpTo(SearchTermRows, MaxRows)
    [] step = "bulk" -> SeqsUpTo(BulkRows, MaxRows)
    [] step = "percentage" -> SeqsUpTo(PercentageCells, MaxRows)
    [] step = "derived" -> SeqsUpTo(AdvertisingMetrics, MaxRows)
    [] step \in {"sku_columns", "advertising_columns"} ->
         SeqsUpTo(HeaderCells, MaxHeaders)
    [] step = "normalize" -> SeqsUpTo(TypeCells, MaxRows)
    [] step \in ExpectedSteps -> {ExpectedColumns(step)}

DedupInit ==
  /\ PipelineIdle
  /\ \E step \in DedupSteps :
       /\ fn = [step |-> step, done |-> FALSE]
       /\ rowsIn \in DedupInputs(step)
  /\ rowsOut = << >>

RunProductDeduplicate ==
  /\ fn = [step |-> "product", done |-> FALSE]
  /\ rowsOut' = ProductDeduplicate(rowsIn)
  /\ fn' = [fn EXCEPT !.done = TRUE]
  /\ UNCHANGED << rowsIn, pipelineVars, parserVars >>

RunParentDeduplicate ==
  /\ fn = [step |-> "parent", done |-> FALSE]
  /\ rowsOut' = ParentDeduplicate(rowsIn)
  /\ fn' = [fn EXCEPT !.done = TRUE]
  /\ UNCHANGED << rowsIn, pipelineVars, parserVars >>

RunSearchTermDeduplicate ==
  /\ fn = [step |-> "search_terms", done |-> FALSE]
  /\ rowsOut' = SearchTermDeduplicate(rowsIn)
  /\ fn' = [fn EXCEPT !.done = TRUE]
  /\ UNCHANGED << rowsIn, pipelineVars, parserVars >>

RunBulkAggregate ==
  /\ fn = [step |-> "bulk", done |-> FALSE]
  /\ rowsOut' = BulkRecords(clientId, rowsIn, 1)
  /\ fn' = [fn EXCEPT !.done = TRUE]
  /\ UNCHANGED << rowsIn, pipelineVars, parserVars >>

\* the percentage cells of sheet rows, each through parsePercentageValue
RunParsePercentageValue ==
  /\ fn = [step |-> "percentage", done |-> FALSE]
  /\ rowsOut' = [i \in 1..Len(rowsIn) |-> parsePercentageValue(rowsIn[i])]
  /\ fn' = [fn EXCEPT !.done = TRUE]
  /\ UNCHANGED << rowsIn, pipelineVars, parserVars >>

\* the derived metrics AdvertisingReportParser.parse gives each row
RunAdvertisingReportDerived ==
  /\ fn = [step |-> "derived", done |-> FALSE]
  /\ rowsOut' = [i \in 1..Len(rowsIn) |->
                   AdvertisingReportDerived(rowsIn[i][1], rowsIn[i][2], rowsIn[i][3],
                                            rowsIn[i][4], rowsIn[i][5])]
  /\ fn' = [fn EXCEPT !.done = TRUE]
  /\ UNCHANGED << rowsIn, pipelineVars, parserVars >>

\* the mappings of the parser whose buildColumnMap is under test
MappingsOf(step) ==
  CASE step \in {"sku_columns", "sku_expected"} -> SkuCampaignMappings
    [] step \in {"advertising_columns", "advertising_expected"} -> AdvertisingReportMappings
    [] step = "parent_child_expected" -> ParentChildMappings
    [] step = "rankings_expected" -> SkuRankingsMappings

RunBuildColumnMap ==
  /\ fn.step \in {"sku_columns", "advertising_columns"} \cup ExpectedSteps
  /\ ~fn.done
  /\ rowsOut' = buildColumnMap(rowsIn, MappingsOf(fn.step))
  /\ fn' = [fn EXCEPT !.done = TRUE]
  /\ UNCHANGED << rowsIn, pipelineVars, parserVars >>

\* the four normalizers on the cells of a column
RunNormalize ==
  /\ fn = [step |-> "normalize", done |-> FALSE]
  /\ rowsOut' = [i \in 1..Len(rowsIn) |->
                   [campaign_type |-> normalizeCampaignType(rowsIn[i]),
                    targeting_type |-> normalizeTargetingType(rowsIn[i]),
                    storage_type |-> normalizeStorageType(rowsIn[i]),
                    recommended_action |-> normalizeAction(rowsIn[i])]]
  /\ fn' = [fn EXCEPT !.done = TRUE]
  /\ UNCHANGED << rowsIn, pipelineVars, parserVars >>

DedupNext ==
  \/ RunProductDeduplicate
  \/ RunParentDeduplicate
  \/ RunSearchTermDeduplicate
  \/ RunBulkAggregate
  \/ RunParsePercentageValue
  \/ RunAdvertisingReportDerived
  \/ RunBuildColumnMap
  \/ RunNormalize

SpecDedup == DedupInit /\ [][DedupNext]_vars

\* ------------------------------------------ claims on the deduplication steps

\* the indices of rows whose key (under keyOf) is k
SameKey(rows, KeyOf(_), k) == { i \in 1..Len(rows) : KeyOf(rows[i]) = k }

KeySet(rows, KeyOf(_)) == { KeyOf(rows[i]) : i \in 1..Len(rows) }

SetMin(S) == CHOOSE x \in S : \A y \in S : x <= y

AsinKey(row) == IF fn.step = "product" THEN row.child_asin ELSE row.parent_asin

\* the earliest row of key k whose ordered_product_sales is the largest of the key
BestOfKey(rows, k) ==
  LET same == SameKey(rows, AsinKey, k)
  IN  SetMin({ i \in same :
                 \A j \in same :
                   rows[j].ordered_product_sales <= rows[i].ordered_product_sales })

\* C6: ProductPerformanceParser.deduplicate and ParentPerformanceParser.deduplicate
\* return exactly one row per distinct key (child ASIN, parent ASIN) of their
\* input, and that row is the input row of the key with the largest
\* ordered_product_sales, the earliest such row when several are tied.
C6_LargestSalesKept ==
  (fn.done /\ fn.step \in {"product", "parent"}) =>
    /\ Len(rowsOut) = Cardinality(KeySet(rowsIn, AsinKey))
    /\ \A k \in KeySet(rowsIn, AsinKey) :
         /\ Cardinality(SameKey(rowsOut, AsinKey, k)) = 1
         /\ \A j \in SameKey(rowsOut, AsinKey, k) :
              rowsOut[j] = rowsIn[BestOfKey(rowsIn, k)]

\* C6 witness: two different rows of one key are tied on the largest sales of
\* the key, a smaller row of the key precedes them, and the step has returned
C6_Witness_TieAfterSmaller ==
  /\ fn.done
  /\ fn.step = "product"
  /\ Len(rowsIn) = 3
  /\ rowsIn[1].child_asin = rowsIn[2].child_asin
  /\ rowsIn[2].child_asin = rowsIn[3].child_asin
  /\ rowsIn[1].ordered_product_sales < rowsIn[2].ordered_product_sales
  /\ rowsIn[2].ordered_product_sales = rowsIn[3].ordered_product_sales
  /\ rowsIn[2] # rowsIn[3]
  /\ rowsOut = << rowsIn[2] >>

SearchTermPair(row) == << row.search_term, row.reporting_date >>

\* C7: SearchTermsParser.deduplicate returns exactly one row per distinct
\* (search term, reporting date) pair of its input, and that row is the first
\* input row with the pair.
C7_FirstRowPerPair ==
  (fn.done /\ fn.step = "search_terms") =>
    /\ Len(rowsOut) = Cardinality(KeySet(rowsIn, SearchTermPair))
    /\ \A k \in KeySet(rowsIn, SearchTermPair) :
         /\ Cardinality(SameKey(rowsOut, SearchTermPair, k)) = 1
         /\ \A j \in SameKey(rowsOut, SearchTermPair, k) :
              rowsOut[j] = rowsIn[SetMin(SameKey(rowsIn, SearchTermPair, k))]

BulkTuple(row) ==
  << clientId, row.report_date, row.campaign_id, row.ad_group_id, row.keyword_id >>

BulkRecordTuple(r) ==
  << r.client_id, r.report_date, r.campaign_id, r.ad_group_id, r.keyword_id >>

RowMetrics(row) ==
  << row.impressions, row.clicks, row.spend, row.sales, row.orders, row.units >>

\* the componentwise sum of the metrics of the rows of key k
RECURSIVE SumMetrics(_, _)
SumMetrics(rows, k) ==
  IF rows = << >> THEN << 0, 0, 0, 0, 0, 0 >>
  ELSE LET rest == SumMetrics(Tail(rows), k)
           m == RowMetrics(Head(rows))
       IN  IF BulkTuple(Head(rows)) = k
           THEN [i \in 1..6 |-> m[i] + rest[i]]
           ELSE rest

\* C5: saveAdvertisingBulk hands the store exactly one record per distinct
\* (client, report date, campaign id, ad-group id, keyword id) of the parsed
\* rows; its impressions, clicks, spend, sales, orders and units are the sums
\* over the rows of the key, and ACOS, ROAS, CTR, CPC and conversion rate are
\* computed from those sums (0 on a zero denominator).
C5_OneSummedRecordPerKey ==
  (fn.done /\ fn.step = "bulk") =>
    /\ Len(rowsOut) = Cardinality(KeySet(rowsIn, BulkTuple))
    /\ \A k \in KeySet(rowsIn, BulkTuple) :
         /\ Cardinality(SameKey(rowsOut, BulkRecordTuple, k)) = 1
         /\ \A j \in SameKey(rowsOut, BulkRecordTuple, k) :
              LET sum == SumMetrics(rowsIn, k)
                  r == rowsOut[j]
              IN  /\ RowMetrics(r) = sum
                  /\ r.acos = Ratio(sum[3], sum[4])
                  /\ r.roas = Ratio(sum[4], sum[3])
                  /\ r.ctr = Ratio(sum[2], sum[1])
                  /\ r.cpc = Ratio(sum[3], sum[2])
                  /\ r.conversion_rate = Ratio(sum[5], sum[2])

\* ------------------------------------------------------ claims on the pipeline

Finished(u) == up[u].pc = "done"

Succeeded(u) == Finished(u) /\ up[u].result.outcome = "success"

Threw(u) == Finished(u) /\ up[u].result.outcome = "thrown"

\* createUploadSession returned a session id to execution u
SessionCreated(u) ==
  \E i \in 1..Len(calls) :
    /\ calls[i].op = "insert" /\ calls[i].table = "upload_sessions"
    /\ calls[i].session = u /\ calls[i].ok

\* the positions in the trace of the calls execution u made on the table
CallsOn(u, op, table) ==
  { i \in 1..Len(calls) :
      calls[i].op = op /\ calls[i].table = table /\ calls[i].session = u }

\* no request was served after execution u returned
LastRequest(u) ==
  /\ del.count = 0
  /\ \A v \in Uploads : v > u => up[v].pc = "idle"

AuditEntries(u) == { i \in 1..Len(ingestionLog) : ingestionLog[i].source_id = u }

RowsOf(u, tableName) == { r \in tables[tableName] : r.data_source_id = u }

\* C1: once the session row is created, an exception raised later in
\* processUpload leaves the session 'failed' with a non-empty error message
\* (never 'pending' or 'processing'), and processUpload re-raises it.
C1_FailedAfterException ==
  \A u \in Uploads :
    (SessionCreated(u) /\ Finished(u) /\ up[u].error # "" /\ sessions[u].exists) =>
      /\ Threw(u)
      /\ up[u].result.message = up[u].error
      /\ sessions[u].status = "failed"
      /\ sessions[u].error_message # ""

\* the parser of execution u ran and returned no row
ParsedNothing(u) ==
  /\ SessionCreated(u)
  /\ input.reportType \in ValidReportTypes
  /\ up[u].pc \in {"completing", "done"}
  /\ up[u].parsed.parsedRows = 0

\* C2: when the parser returns zero rows, processUpload returns success with
\* inserted = 0, the session ends 'completed', no upsert is sent to the store
\* and no audit-log entry is written.
C2_EmptyParseCompletes ==
  \A u \in Uploads :
    (ParsedNothing(u) /\ Finished(u) /\ sessions[u].exists) =>
      /\ Succeeded(u)
      /\ up[u].result.inserted = 0
      /\ sessions[u].status = "completed"
      /\ \A i \in 1..Len(calls) : calls[i].session = u => calls[i].op # "upsert"
      /\ AuditEntries(u) = {}

RecordKeys(tableName, records) ==
  { ConflictKey(tableName, records[i]) : i \in 1..Len(records) }

TableKeys(tableName) == { r.key : r \in tables[tableName] }

\* both executions processed the file of the behaviour successfully, the
\* second after the first, and nothing was deleted
UploadedTwice == Succeeded(1) /\ Succeeded(2) /\ LastRequest(2)

\* the target table holds exactly the composite keys the first execution wrote
SameKeysAsOnce ==
  LET tableName == TableNameOf(input.reportType)
  IN  /\ TableKeys(tableName) = RecordKeys(tableName, up[1].records)
      /\ Cardinality(tables[tableName])
           = Cardinality(RecordKeys(tableName, up[1].records))

\* C3 as stated: processing the same file twice for the same client leaves
\* the same set of composite keys (the same row count) as processing it once.
C3_SameKeysAfterSecondUpload == UploadedTwice => SameKeysAsOnce

\* C3: processing the same file twice for the same client on the same
\* calendar day leaves the same set of composite keys (the same row count) in
\* the target table as processing it once.
C3_SameKeysAfterSecondUploadSameDay ==
  (UploadedTwice /\ up[1].day = up[2].day) => SameKeysAsOnce

\* C3 witness: an inventory file with two rows was processed twice on one day
C3_Witness_TwiceSameDay ==
  /\ UploadedTwice
  /\ up[1].day = up[2].day
  /\ input.reportType = "inventory"
  /\ up[1].result.inserted = 2
  /\ up[2].result.inserted = 2

\* the data line carries the identifier(s) its parser requires
HasIdentifier(reportType, line) ==
  IF reportType \in {"sku_campaign_mapping", "parent_child"}
  THEN line.c0 # Empty /\ line.c1 # Empty
  ELSE line.c0 # Empty

\* the composite key the row of a data line has in the target table
LineKey(reportType, line, day) ==
  LET row == LineOutcome(reportType, line, day).row
      tableName == TableNameOf(reportType)
  IN  ConflictKey(tableName,
                  IF reportType = "inventory"
                  THEN InventoryRecords(clientId, << row >>, 0, day)[1]
                  ELSE RecordOf(clientId, row, 0))

\* the file of the behaviour: rows with the identifier, of pairwise different
\* composite keys, and exactly one row without it
OneBadRow(day) ==
  LET good == { i \in 1..Len(input.lines) : HasIdentifier(input.reportType, input.lines[i]) }
  IN  /\ input.reportType \in ValidReportTypes \ {"advertising_bulk"}
      /\ Len(input.lines) = Cardinality(good) + 1
      /\ \A i, j \in good :
           i # j => LineKey(input.reportType, input.lines[i], day)
                      # LineKey(input.reportType, input.lines[j], day)

\* C4: for each delimited-text parser, a file of N rows with the identifier
\* (pairwise different composite keys) and one row without it gives
\* parsedRows = N and exactly one error, and after a successful upload the
\* store holds exactly N rows of that upload.
C4_BadRowSkipped ==
  \A u \in Uploads :
    (Succeeded(u) /\ LastRequest(u) /\ OneBadRow(up[u].day)) =>
      /\ up[u].parsed.parsedRows = Len(input.lines) - 1
      /\ Len(up[u].parsed.errors) = 1
      /\ Cardinality(RowsOf(u, TableNameOf(input.reportType))) = Len(input.lines) - 1

\* the store rejected an upsert of the report rows of execution u
RejectedUpsert(u) ==
  \E i \in CallsOn(u, "upsert", TableNameOf(input.reportType)) : ~calls[i].ok

\* C8: in the chunked saves the chunks are sent in order; when the store
\* rejects chunk k, no later chunk is sent, the rows of the earlier chunks stay
\* in the store, the session ends 'failed' with the store's message, and no
\* audit-log entry is written.
C8_RejectedChunkStopsSave ==
  \A u \in Uploads :
    (/\ input.reportType \in {"advertising_report", "advertising_bulk"}
     /\ SessionCreated(u) /\ Finished(u) /\ LastRequest(u)
     /\ RejectedUpsert(u)) =>
      LET tableName == TableNameOf(input.reportType)
          sent == CallsOn(u, "upsert", tableName)
      IN  /\ Cardinality(sent) = up[u].k
          /\ \A i \in sent : calls[i].ok <=> Cardinality({ j \in sent : j <= i }) < up[u].k
          /\ \A i \in 1..((up[u].k - 1) * chunkSize) :
               \E r \in RowsOf(u, tableName) :
                 r.key = ConflictKey(tableName, up[u].records[i])
          /\ \A r \in RowsOf(u, tableName) :
               \E i \in 1..((up[u].k - 1) * chunkSize) :
                 r.key = ConflictKey(tableName, up[u].records[i])
          /\ Threw(u)
          /\ sessions[u].status = "failed"
          /\ sessions[u].error_message = "Database error: " \o StoreMessage
          /\ AuditEntries(u) = {}

\* C9: a successful processUpload that persisted at least one row leaves
\* exactly one audit-log entry whose source id is the session id and whose
\* record count is the returned inserted, written after the last upsert and
\* before the session is marked 'completed'; a 'failed' session leaves none.
C9_OneAuditEntry ==
  \A u \in Uploads :
    /\ (Succeeded(u) /\ up[u].result.inserted >= 1 /\ del.count = 0) =>
         /\ Cardinality(AuditEntries(u)) = 1
         /\ \A e \in AuditEntries(u) :
              ingestionLog[e].record_count = up[u].result.inserted
         /\ \A l \in CallsOn(u, "insert", "data_ingestion_log") :
              /\ calls[l].ok
              /\ \A i \in 1..Len(calls) :
                   (calls[i].session = u /\ calls[i].op = "upsert") => i < l
              /\ \A i \in CallsOn(u, "update", "upload_sessions") :
                   calls[i].status = "completed" => l < i
    /\ (sessions[u].exists /\ sessions[u].status = "failed") => AuditEntries(u) = {}

\* the calls the last deleteUpload request has made so far
DeleteCalls ==
  SelectSeq(SubSeq(calls, del.from + 1, Len(calls)),
            LAMBDA c : c.op = "delete" /\ c.session = del.session)

\* no other request made a store call since the last deleteUpload started
DeleteAlone == Len(DeleteCalls) = Len(calls) - del.from

DeleteTarget ==
  IF del.reportType \in ValidReportTypes THEN TableNameOf(del.reportType)
  ELSE del.reportType

\* C10: deleteUpload deletes the rows of the target table tagged with the
\* session id, then the audit-log rows of the session, then the session row;
\* a rejection of the first or the second delete does not stop the later
\* ones; a rejection of the session delete is raised and no success result
\* is returned.
C10_DeleteOrder ==
  del.count > 0 =>
    LET made == DeleteCalls
        order == << DeleteTarget, "data_ingestion_log", "upload_sessions" >>
    IN  /\ Len(made) = CASE del.pc = "data" -> 0
                         [] del.pc = "log" -> 1
                         [] del.pc = "session" -> 2
                         [] del.pc = "idle" -> 3
        /\ \A i \in 1..Len(made) : made[i].table = order[i]
        /\ del.pc = "idle" =>
             /\ del.result = (IF made[3].ok THEN "success" ELSE "thrown")
             /\ (DeleteAlone /\ made[1].ok) => RowsOf(del.session, DeleteTarget) = {}
             /\ (DeleteAlone /\ made[2].ok) => AuditEntries(del.session) = {}
             /\ made[3].ok <=> ~sessions[del.session].exists
        /\ del.pc # "idle" => del.result = "none"

\* C10 witness: the delete of the report rows was rejected, the audit-log
\* rows and the session row were deleted all the same, deleteUpload returned
\* success and the report rows of the session are still in the store
C10_Witness_DeletedDespiteRejection ==
  /\ del.count > 0
  /\ del.pc = "idle"
  /\ Len(DeleteCalls) = 3
  /\ DeleteCalls[1].servable
  /\ ~DeleteCalls[1].ok
  /\ DeleteCalls[2].ok
  /\ DeleteCalls[3].ok
  /\ del.result = "success"
  /\ RowsOf(del.session, DeleteTarget) # {}
  /\ ~sessions[del.session].exists

\* C11: a string that is not one of the twelve report-type identifiers is not
\* a valid report type, an upload naming it is rejected before a session is
\* created or a parser is asked for, and isValidReportType holds exactly for
\* the strings for which getParser returns a parser.
C11_UnknownTypeRejected ==
  \A u \in Uploads :
    up[u].pc # "idle" =>
      /\ input.reportType \in ValidReportTypes
      /\ isValidReportType(input.reportType) <=> getParser(input.reportType).error = ""
      /\ \A t \in CandidateTypes \ RequestTypes : getParser(t).error # ""

\* the statuses execution u has written to its session row, in order
StatusWrites(u) ==
  LET writes == SelectSeq(calls, LAMBDA c : /\ c.session = u
                                            /\ c.table = "upload_sessions"
                                            /\ c.op \in {"insert", "update"})
  IN  [i \in 1..Len(writes) |-> writes[i].status]

\* the rows of any table that carry the session id of execution u
PersistedBy(u) == UNION { RowsOf(u, t) : t \in TableNames }

\* C12: processUpload writes the status of its session in the order pending
\* (at creation), processing, then exactly one of completed or failed, and
\* nothing after it; no data row is persisted before the session is
\* 'processing'.
C12_StatusOrder ==
  \A u \in Uploads :
    SessionCreated(u) =>
      /\ Len(StatusWrites(u)) \in 1..3
      /\ \A i \in 1..Len(StatusWrites(u)) :
           StatusWrites(u)[i] \in CASE i = 1 -> {"pending"}
                                    [] i = 2 -> {"processing"}
                                    [] i = 3 -> {"completed", "failed"}
      /\ Finished(u) => Len(StatusWrites(u)) = 3
      /\ (sessions[u].exists /\ PersistedBy(u) # {}) => sessions[u].status # "pending"

\* execution u has parsed the file of the behaviour
Parsed(u) == up[u].pc \in {"saving", "mapping", "logging", "completing"} \/ Succeeded(u)

\* the dates of the name of the specification's example, as YYYY-MM-DD
ExampleStart == << "2", "0", "2", "5", "-", "0", "1", "-", "0", "1" >>

ExampleEnd == << "2", "0", "2", "5", "-", "0", "1", "-", "3", "1" >>

\* C14: when an advertising-bulk file whose name holds YYYYMMDD-YYYYMMDD is
\* ingested, the report date of every parsed row is the second date as
\* YYYY-MM-DD, and the date range of the parse metadata and of the audit-log
\* entry is first date .. second date.
C14_FilenameDates ==
  \A u \in Uploads :
    (input.reportType = "advertising_bulk" /\ input.fileName = DatedFileName
       /\ Parsed(u)) =>
      /\ \A i \in 1..Len(up[u].records) : up[u].records[i].report_date = ExampleEnd
      /\ up[u].parsed.dateRange = [start |-> ExampleStart, end |-> ExampleEnd]
      /\ \A e \in AuditEntries(u) :
           /\ ingestionLog[e].date_range_start = ExampleStart
           /\ ingestionLog[e].date_range_end = ExampleEnd

TerminalStatuses == {"completed", "failed"}

\* C13: once the status of a session is 'completed' or 'failed', no tracker
\* operation changes it, and completedAt is written only by an update whose
\* new status is 'completed' or 'failed'.
C13_TerminalIsFinal ==
  [][\A s \in Uploads :
       /\ (sessions[s].exists /\ sessions[s].status \in TerminalStatuses) =>
            sessions'[s].status = sessions[s].status
       /\ sessions'[s].completed_at # sessions[s].completed_at =>
            /\ calls'[Len(calls')].op = "update"
            /\ calls'[Len(calls')].status \in TerminalStatuses
            /\ sessions'[s].status = calls'[Len(calls')].status]_vars

\* the number a percentage cell holds: the number itself, or the number its
\* text reads as once the percent sign is removed; NaN when it holds none
RawValue(cell) ==
  IF cell.kind = "number" THEN Num(cell.num)
  ELSE IF cell.kind = "string" THEN parseFloat(RemoveFirst(cell.str, "%"))
  ELSE NaN

\* the raw value times 100 when it is below 1, the raw value otherwise
Normalized(raw) == IF raw < Fixed(1, 0) THEN raw * 100 ELSE raw

PercentageDone == fn.done /\ fn.step = "percentage"

\* C15 as stated: for every percentage cell the advertising-bulk parser reads,
\* the normalized value is the raw value times 100 when the raw value is
\* below 1, and the raw value otherwise.
C15_PercentageNormalized ==
  PercentageDone =>
    \A i \in 1..Len(rowsIn) :
      ~RawValue(rowsIn[i]).nan => rowsOut[i] = Normalized(RawValue(rowsIn[i]).num)

\* C15: a percentage cell that holds a number is normalized to the number
\* times 100 when it is below 1 and to the number itself otherwise; a cell
\* that holds a text is read as the number the text shows, without its
\* percent sign and without scaling, 0 when it shows none; an empty or
\* missing cell gives 0.
C15_NumberCellsNormalized ==
  PercentageDone =>
    \A i \in 1..Len(rowsIn) :
      rowsOut[i] = CASE rowsIn[i].kind = "number" -> Normalized(rowsIn[i].num)
                     [] rowsIn[i].kind = "string" ->
                          IF RawValue(rowsIn[i]).nan THEN 0 ELSE RawValue(rowsIn[i]).num
                     [] OTHER -> 0

\* C15 witness: the number 0.25 became 25, the number 25 stayed 25, and the
\* text 0.25 stayed 0.25
C15_Witness_FractionAndWhole ==
  /\ PercentageDone
  /\ rowsIn = << NumberCell(Fixed(0, 25)), NumberCell(Fixed(25, 0)),
                 TextCell(<< "0", ".", "2", "5" >>) >>
  /\ rowsOut = << Fixed(25, 0), Fixed(25, 0), Fixed(0, 25) >>

\* two quotients are the same number
RatioEq(a, b) == a[1] * b[2] = b[1] * a[2]

\* 0 on a zero denominator, the quotient otherwise
QuotientUnlessZero(num, den) == IF den = 0 THEN << 0, 1 >> ELSE << num, den >>

\* the quotient on a positive denominator, 0 otherwise
QuotientIfPositive(num, den) == IF den > 0 THEN << num, den >> ELSE << 0, 1 >>

\* the five derived metrics of r are what Q gives for the metrics
DerivedBy(Q(_, _), r, impressions, clicks, spend, sales, orders) ==
  /\ RatioEq(r.acos, Q(spend, sales))
  /\ RatioEq(r.roas, Q(sales, spend))
  /\ RatioEq(r.ctr, Q(clicks, impressions))
  /\ RatioEq(r.cpc, Q(spend, clicks))
  /\ RatioEq(r.conversion_rate, Q(orders, clicks))

\* every row AdvertisingReportParser.parse derived, every record
\* saveAdvertisingBulk built after aggregation
AllDerivedBy(Q(_, _)) ==
  /\ (fn.done /\ fn.step = "derived") =>
       \A i \in 1..Len(rowsOut) :
         DerivedBy(Q, rowsOut[i], rowsIn[i][1], rowsIn[i][2], rowsIn[i][3],
                   rowsIn[i][4], rowsIn[i][5])
  /\ (fn.done /\ fn.step = "bulk") =>
       \A i \in 1..Len(rowsOut) :
         DerivedBy(Q, rowsOut[i], rowsOut[i].impressions, rowsOut[i].clicks,
                   rowsOut[i].spend, rowsOut[i].sales, rowsOut[i].orders)

\* C16 as stated: in AdvertisingReportParser.parse and after the aggregation
\* of saveAdvertisingBulk, acos, roas, ctr, cpc and conversion_rate are 0 when
\* their denominator (sales, spend, impressions, clicks, clicks) is 0, and the
\* quotient of their two metrics otherwise.
C16_ZeroDenominator == AllDerivedBy(QuotientUnlessZero)

\* C16: in AdvertisingReportParser.parse and after the aggregation of
\* saveAdvertisingBulk, acos, roas, ctr, cpc and conversion_rate are the
\* quotient of their two metrics when the denominator is greater than 0, and
\* 0 when it is 0 or negative; no division by 0 takes place.
C16_PositiveDenominator == AllDerivedBy(QuotientIfPositive)

\* C16 witness: a parsed row without sales and clicks got acos, cpc and
\* conversion rate 0 and a click-through rate of 0 / 5, and a row with every
\* metric positive got the quotients
C16_Witness_ZeroSales ==
  /\ fn.done
  /\ fn.step = "derived"
  /\ rowsIn = << << 5, 0, 2, 0, 1 >>, << 10, 1, 2, 4, 1 >> >>
  /\ rowsOut[1] = [acos |-> << 0, 1 >>, roas |-> << 0, 2 >>, ctr |-> << 0, 5 >>,
                   cpc |-> << 0, 1 >>, conversion_rate |-> << 0, 1 >>]
  /\ rowsOut[2] = [acos |-> << 2, 4 >>, roas |-> << 4, 2 >>, ctr |-> << 1, 10 >>,
                   cpc |-> << 2, 1 >>, conversion_rate |-> << 1, 1 >>]

ColumnsDone == fn.done /\ fn.step \in {"sku_columns", "advertising_columns"}

\* the 0-based indices of the header cells that, lowercased and trimmed,
\* contain one of the variants
MatchingColumns(headers, variants) ==
  { i \in 0..(Len(headers) - 1) :
      \E k \in 1..Len(variants) :
        includes(Trim(toLowerCase(headers[i + 1])), variants[k]) }

\* C20: buildColumnMap binds every semantic key to the lowest index of a
\* header cell that, lowercased and trimmed, contains one of the key's
\* variants, whatever later cells match, and leaves the key unbound when no
\* header cell matches.
C20_FirstMatchingColumn ==
  ColumnsDone =>
    /\ \A e \in 1..Len(rowsOut) :
         \E m \in 1..Len(MappingsOf(fn.step)) : MappingsOf(fn.step)[m].key = rowsOut[e].key
    /\ \A m \in 1..Len(MappingsOf(fn.step)) :
         LET key == MappingsOf(fn.step)[m].key
             matching == MatchingColumns(rowsIn, MappingsOf(fn.step)[m].variants)
         IN  IF matching = {} THEN ~MapHas(rowsOut, key)
             ELSE /\ Cardinality({ e \in 1..Len(rowsOut) : rowsOut[e].key = key }) = 1
                  /\ MapGet(rowsOut, key) = SetMin(matching)

\* C20 witness: the header row "Seller SKU", "Campaign Name", "SKU" bound sku
\* to column 0 although column 2 matches too, and left asin unbound
C20_Witness_LaterColumnIgnored ==
  /\ ColumnsDone
  /\ fn.step = "sku_columns"
  /\ rowsIn = << << "S", "e", "l", "l", "e", "r", " ", "S", "K", "U" >>,
                 << "C", "a", "m", "p", "a", "i", "g", "n", " ", "N", "a", "m", "e" >>,
                 << "S", "K", "U" >> >>
  /\ MatchingColumns(rowsIn, SkuCampaignMappings[1].variants) = {0, 2}
  /\ MapGet(rowsOut, "sku") = 0
  /\ MapGet(rowsOut, "campaign_name") = 1
  /\ ~MapHas(rowsOut, "asin")

\* the upsert of the upload's SKU-campaign pairs was rejected
MappingRejected(u) ==
  \E i \in 1..Len(calls) :
    /\ calls[i].op = "upsert"
    /\ calls[i].table = "sku_campaign_mapping"
    /\ calls[i].session = u
    /\ ~calls[i].ok

\* the upload succeeded with every record counted and every record's key in
\* the metrics table
SavedAll(u) ==
  /\ Succeeded(u)
  /\ up[u].result.inserted = Len(up[u].records)
  /\ RecordKeys(TableNameOf(input.reportType), up[u].records)
       \subseteq TableKeys(TableNameOf(input.reportType))

\* C17: when the upsert of the observed SKU-campaign pairs is rejected during
\* an advertising-bulk upload, the upload still succeeds: the metric rows stay
\* persisted, the returned inserted count is the number of records, one
\* audit-log entry is written and the session ends 'completed'.
C17_MappingFailureTolerated ==
  \A u \in Uploads :
    (input.reportType = "advertising_bulk" /\ Finished(u) /\ MappingRejected(u)) =>
      /\ SavedAll(u)
      /\ Cardinality(AuditEntries(u)) = 1
      /\ sessions[u].status = "completed"

\* the positions in the trace of the accepted upserts into the table of the
\* uploaded report type
AcceptedUpserts ==
  { i \in 1..Len(calls) :
      /\ calls[i].op = "upsert"
      /\ calls[i].table = TableNameOf(input.reportType)
      /\ calls[i].ok }

\* the records the accepted upsert at position i of the trace carried: the
\* chunk of its upload numbered by the upload's accepted upserts so far
UpsertedBatch(i) ==
  Batch(input.reportType, up[calls[i].session].records,
        Cardinality({ j \in AcceptedUpserts : j <= i /\ calls[j].session = calls[i].session }))

\* the positions of the accepted upserts that carried a record of the key
WritesOf(key) ==
  { i \in AcceptedUpserts : key \in BatchKeys(TableNameOf(input.reportType), UpsertedBatch(i)) }

UpsertedKeys ==
  UNION { BatchKeys(TableNameOf(input.reportType), UpsertedBatch(i)) : i \in AcceptedUpserts }

SetMax(S) == CHOOSE x \in S : \A y \in S : x >= y

\* the rows the last accepted upsert of the key stored for it
LastWritten(key) ==
  LET batch == UpsertedBatch(SetMax(WritesOf(key)))
  IN  { StoredRow(TableNameOf(input.reportType), batch[n]) :
          n \in { m \in 1..Len(batch) :
                    ConflictKey(TableNameOf(input.reportType), batch[m]) = key } }

\* two executions were in flight at once
Overlapped ==
  \E i, j \in 1..Len(calls) :
    i < j /\ calls[i].session = 2 /\ calls[j].session = 1

BothReturned == Finished(1) /\ Finished(2)

\* the table holds one row per upserted key, the one written last
LastWriteWins ==
  /\ TableKeys(TableNameOf(input.reportType)) = UpsertedKeys
  /\ \A key \in UpsertedKeys :
       /\ Cardinality(LastWritten(key)) = 1
       /\ { r \in tables[TableNameOf(input.reportType)] : r.key = key } = LastWritten(key)

\* C18: for any interleaving of two concurrent processUpload executions of
\* the same report type for the same client, once both have returned both
\* sessions are in a terminal state, the table holds exactly one row per
\* composite key the two uploads upserted, and each row carries the values
\* and the data_source_id of the upload whose upsert of that key came last.
C18_ConcurrentUploads ==
  BothReturned =>
    /\ \A u \in {1, 2} : SessionCreated(u) => sessions[u].status \in TerminalStatuses
    /\ LastWriteWins

\* what a parser instance made for the call alone returns for its arguments
\* on the day of the call
FreshResult(call) ==
  IF call.reportType = "advertising_bulk"
  THEN parseBulkOn(NewParser.dateRange, call.lines, call.filename, call.day).result
  ELSE parse(call.reportType, call.lines, call.day)

\* C19: for every parser of the registry, every call of parse(content,
\* filename) on the singleton returns the rows, errors and metadata
\* (dateRange included) a fresh parser instance would return for the same
\* arguments on the same day, whatever calls came before, and a result that
\* was returned is not changed by a later call.
C19_ParseDependsOnArguments ==
  \A i \in 1..Len(returned) :
    /\ returned[i].data = FreshResult(returned[i]).data
    /\ arrays[returned[i].errors] = FreshResult(returned[i]).errors
    /\ returned[i].metadata = FreshResult(returned[i]).metadata

FileParsed == fn.done /\ fn.step \in DelimitedTypes

\* the positions in the file of the data lines the parser rejects
RejectedPositions(reportType, content, day) ==
  { i \in 1..Len(content) :
      /\ ~content[i].blank
      /\ ~content[i].header
      /\ ~LineOutcome(reportType, content[i].cells, day).ok }

\* C21: for every file content, each ParseError recorded for a data row
\* carries the 1-indexed position of that row's line in the original file,
\* header lines included: one error per rejected data line, at its position.
C21_ErrorRowIsFilePosition ==
  FileParsed =>
    /\ Len(rowsOut.errors) = Cardinality(RejectedPositions(fn.step, rowsIn, today))
    /\ { rowsOut.errors[k].row : k \in 1..Len(rowsOut.errors) }
         = RejectedPositions(fn.step, rowsIn, today)

\* a text of the form MM/DD/YY, MM/DD/YYYY or YYYY-MM-DD
IsDateText(s) ==
  \/ LET parts == Split(s, "/")
     IN  /\ Len(parts) = 3
         /\ \A i \in 1..3 : parts[i] # Empty /\ AllDigits(parts[i])
         /\ Len(parts[1]) <= 2 /\ Len(parts[2]) <= 2 /\ Len(parts[3]) \in {2, 4}
  \/ /\ Len(s) = 10
     /\ s[5] = "-" /\ s[8] = "-"
     /\ AllDigits(SubSeq(s, 1, 4) \o SubSeq(s, 6, 7) \o SubSeq(s, 9, 10))

\* C22: in the daily-sales parser, every data row whose first field cannot be
\* parsed as a date (neither MM/DD/YY, MM/DD/YYYY nor YYYY-MM-DD) is recorded
\* as a ParseError on field 'date' and is omitted from the parsed rows: one
\* error per such line, and every parsed row has a date.
C22_UnparseableDateSkipped ==
  (FileParsed /\ fn.step = "daily_sales") =>
    LET dataLines == DataLinesOf("daily_sales", rowsIn)
        bad == { i \in 1..Len(dataLines) : ~IsDateText(cleanString(dataLines[i].c0)) }
    IN  /\ Len(rowsOut.data) = Len(dataLines) - Cardinality(bad)
        /\ \A k \in 1..Len(rowsOut.data) : IsDateText(rowsOut.data[k].date)
        /\ Len(rowsOut.errors) = Cardinality(bad)
        /\ \A k \in 1..Len(rowsOut.errors) : rowsOut.errors[k].field = "date"

WorkbookParsed == fn.done /\ fn.step = "advertising_bulk"

\* the exception reading the workbook or processing the sheets throws first
FirstFailure(workbook) ==
  IF ~workbook.readable THEN [sheet |-> 0, message |-> workbook.message]
  ELSE LET i == SetMin({ j \in 1..Len(workbook.sheets) : workbook.sheets[j].throws })
       IN  [sheet |-> i, message |-> workbook.sheets[i].message]

Fails(workbook) ==
  ~workbook.readable \/ \E j \in 1..Len(workbook.sheets) : workbook.sheets[j].throws

RECURSIVE RowsBefore(_, _, _)
RowsBefore(workbook, sheet, reportDate) ==
  IF sheet <= 1 THEN << >>
  ELSE RowsBefore(workbook, sheet - 1, reportDate)
       \o processCampaignSheet(workbook.sheets[sheet - 1].lines, reportDate)

\* C23: when reading the workbook or processing any sheet throws,
\* AdvertisingBulkParser.parse returns a result (it does not throw) whose
\* data are the rows of the sheets processed before the failure and whose
\* errors are exactly one error, with row 0 and a message that carries the
\* message of the exception.
C23_FailureCaught ==
  (WorkbookParsed /\ Fails(rowsIn.workbook)) =>
    LET failure == FirstFailure(rowsIn.workbook)
        reportDate == extractDateFromFilename(NoDateRange, rowsIn.filename, today).reportDate
    IN  /\ rowsOut.data = RowsBefore(rowsIn.workbook, failure.sheet, reportDate)
        /\ Len(rowsOut.errors) = 1
        /\ rowsOut.errors[1].row = 0
        /\ rowsOut.errors[1].message = "Failed to parse Excel file: " \o failure.message

\* a sheet with rows was processed, then a sheet threw: the rows are returned
\* together with the one error
C23_Witness_RowsBeforeBrokenSheet ==
  /\ WorkbookParsed
  /\ rowsIn.workbook.readable
  /\ Len(rowsIn.workbook.sheets) >= 2
  /\ ~rowsIn.workbook.sheets[1].throws
  /\ rowsIn.workbook.sheets[2].throws
  /\ Len(rowsOut.data) = 1
  /\ Len(rowsOut.errors) = 1

\* C24: every ParseResult returned by any of the twelve parsers satisfies
\* parsedRows + skippedRows = totalRows, with parsedRows equal to the number
\* of rows in data and skippedRows >= 0.
C24_RowCountsAddUp ==
  (FileParsed \/ WorkbookParsed) =>
    /\ rowsOut.metadata.parsedRows + rowsOut.metadata.skippedRows
         = rowsOut.metadata.totalRows
    /\ rowsOut.metadata.parsedRows = Len(rowsOut.data)
    /\ rowsOut.metadata.skippedRows >= 0

\* a file of which one data line was parsed and another one skipped
C24_Witness_ParsedAndSkipped ==
  /\ FileParsed
  /\ Len(rowsOut.data) = 1
  /\ rowsOut.metadata.skippedRows = 1
  /\ rowsOut.metadata.totalRows = 2

NormalizeDone == fn = [step |-> "normalize", done |-> TRUE]

CampaignTypes == { << "S", "P" >>, << "S", "B" >>, << "S", "D" >> }

TargetingTypes == { << "a", "u", "t", "o" >>, << "m", "a", "n", "u", "a", "l" >>, << "k", "e", "y", "w", "o", "r", "d" >>, << "p", "r", "o", "d", "u", "c", "t" >> }

StorageTypes ==
  { << "s", "t", "a", "n", "d", "a", "r", "d" >>, << "o", "v", "e", "r", "s", "i", "z", "e" >>, << "a", "p", "p", "a", "r", "e", "l" >>, << "f", "o", "o", "t", "w", "e", "a", "r" >>, << "f", "l", "a", "m", "m", "a", "b", "l", "e" >>, << "a", "e", "r", "o", "s", "o", "l" >> }

RecommendedActions ==
  { << "l", "i", "q", "u", "i", "d", "a", "t", "e" >>, << "r", "e", "m", "o", "v", "a", "l" >>, << "p", "r", "i", "c", "e", "_", "r", "e", "d", "u", "c", "t", "i", "o", "n" >>, << "n", "o", "n", "e" >> }

\* C25: each normalized field takes a value in its closed set: campaign type
\* in {SP, SB, SD}, targeting type in {auto, manual, keyword, product},
\* storage type in {standard, oversize, apparel, footwear, flammable,
\* aerosol}, recommended action in {liquidate, removal, price_reduction,
\* none}, for every non-empty text of the column.
C25_NormalizedInClosedSet ==
  NormalizeDone =>
    \A i \in 1..Len(rowsOut) :
      /\ rowsOut[i].campaign_type \in CampaignTypes
      /\ rowsOut[i].targeting_type \in TargetingTypes
      /\ rowsOut[i].storage_type \in StorageTypes
      /\ rowsOut[i].recommended_action \in RecommendedActions

\* the batches execution u sends for its records, one after the other
RECURSIVE BatchesSent(_, _)
BatchesSent(u, n) ==
  IF n = 0 THEN << >>
  ELSE BatchesSent(u, n - 1) \o Batch(input.reportType, up[u].records, n)

\* C26: for advertising report and advertising bulk, the records are split
\* into consecutive batches of at most chunkSize records, sent one after the
\* other: the batches, in the order sent, make up the records in the original
\* order (every record in exactly one batch), and on success there was one
\* upsert per batch and the returned inserted is the sum of the batch sizes.
C26_ConsecutiveBatches ==
  \A u \in Uploads :
    (/\ Chunked(input.reportType)
     /\ LastRequest(u)
     /\ up[u].pc \notin {"idle", "created", "processing"}
     /\ up[u].records # << >>) =>
      LET n == NumBatches(input.reportType, up[u].records)
          sent == CallsOn(u, "upsert", TableNameOf(input.reportType))
      IN  /\ \A k \in 1..n :
               /\ Len(Batch(input.reportType, up[u].records, k)) >= 1
               /\ Len(Batch(input.reportType, up[u].records, k)) <= chunkSize
          /\ BatchesSent(u, n) = up[u].records
          /\ Cardinality(sent) <= n
          /\ \A i \in sent : calls[i].ok \/ Cardinality({ j \in sent : j <= i }) = up[u].k
          /\ up[u].inserted
               = Len(BatchesSent(u, Cardinality({ i \in sent : calls[i].ok })))
          /\ Succeeded(u) =>
               /\ Cardinality(sent) = n
               /\ up[u].result.inserted = Len(up[u].records)

\* a chunked save of more records than one batch holds has succeeded
C26_Witness_TwoBatches ==
  \E u \in Uploads :
    /\ Chunked(input.reportType)
    /\ LastRequest(u)
    /\ Succeeded(u)
    /\ Len(up[u].records) > chunkSize
    /\ Cardinality(CallsOn(u, "upsert", TableNameOf(input.reportType))) = 2

ExpectedDone == fn.done /\ fn.step \in ExpectedSteps

\* the 0-based index of the header cell of that name
ColumnNamed(headers, name) == (CHOOSE i \in 1..Len(headers) : headers[i] = name) - 1

\* C27: for each flexible-schema parser, when the header row is the column
\* list of the parser's 'Expected columns' comment, no two semantic keys are
\* bound to the same column, and campaign_name is read from the 'Campaign
\* Name' column, child_asin from the 'Child ASIN' column and category_name
\* from the 'Category' column.
C27_ExpectedColumnsBound ==
  ExpectedDone =>
    /\ \A e1, e2 \in 1..Len(rowsOut) :
         rowsOut[e1].value = rowsOut[e2].value => e1 = e2
    /\ fn.step \in {"advertising_expected", "sku_expected"} =>
         MapGet(rowsOut, "campaign_name") = ColumnNamed(rowsIn, << "C", "a", "m", "p", "a", "i", "g", "n", " ", "N", "a", "m", "e" >>)
    /\ fn.step = "parent_child_expected" =>
         MapGet(rowsOut, "child_asin") = ColumnNamed(rowsIn, << "C", "h", "i", "l", "d", " ", "A", "S", "I", "N" >>)
    /\ fn.step = "rankings_expected" =>
         MapGet(rowsOut, "category_name") = ColumnNamed(rowsIn, << "C", "a", "t", "e", "g", "o", "r", "y" >>)

\* the last deleteUpload returned and the store served each of its calls
DeletedWithoutFailure ==
  /\ del.count > 0
  /\ del.pc = "idle"
  /\ DeleteAlone
  /\ \A i \in 1..Len(DeleteCalls) : DeleteCalls[i].ok

\* C28: after a deleteUpload during which no store call failed, no row in any
\* report store still carries the deleted session's id as data_source_id, for
\* every report type, the SKU-campaign mapping rows written by an
\* advertising-bulk upload included.
C28_NoRowOfDeletedSession ==
  DeletedWithoutFailure =>
    \A tableName \in TableNames : RowsOf(del.session, tableName) = {}

\* no two records of the batch have the same composite conflict key
OneRecordPerKey(tableName, batch) ==
  \A i, j \in 1..Len(batch) :
    ConflictKey(tableName, batch[i]) = ConflictKey(tableName, batch[j]) => i = j

\* C29: for every report type and every parsed file, files that repeat a
\* business key included, the records passed to a single upsert call contain
\* at most one record per composite conflict key of the target table.
C29_OneRecordPerKeyInUpsert ==
  \A u \in Uploads :
    /\ up[u].pc = "saving" =>
         OneRecordPerKey(TableNameOf(input.reportType),
                         Batch(input.reportType, up[u].records, up[u].k))
    /\ up[u].pc = "mapping" => OneRecordPerKey("sku_campaign_mapping", up[u].mappings)

\* a step of deleteUpload
DeleteStep == del.pc # "idle" /\ del' # del

\* C30: deleteUpload(s) removes only report rows whose data_source_id is s,
\* audit entries whose source id is s and the session row s: report rows last
\* written by another session (rows first uploaded by s and overwritten by a
\* re-upload included), the other sessions and their audit entries are
\* unchanged by every step of deleteUpload.
C30_DeletesOnlyOwnRows ==
  [][DeleteStep =>
       /\ \A tableName \in TableNames :
            /\ tables'[tableName] \subseteq tables[tableName]
            /\ \A r \in tables[tableName] :
                 r.data_source_id # del.session => r \in tables'[tableName]
       /\ SelectSeq(ingestionLog', LAMBDA e : e.source_id # del.session)
            = SelectSeq(ingestionLog, LAMBDA e : e.source_id # del.session)
       /\ Len(ingestionLog') <= Len(ingestionLog)
       /\ \A v \in Uploads : v # del.session => sessions'[v] = sessions[v]]_vars

\* session 1 was deleted without a store failure after session 2 had
\* overwritten one of its rows: the row, tagged with session 2, is still
\* in the store
C30_Witness_OverwrittenRowKept ==
  /\ DeletedWithoutFailure
  /\ del.session = 1
  /\ Succeeded(1) /\ Succeeded(2)
  /\ \E r \in tables[TableNameOf(input.reportType)] :
       /\ r.data_source_id = 2
       /\ \E i \in 1..Len(up[1].records) :
            ConflictKey(TableNameOf(input.reportType), up[1].records[i]) = r.key

====
